---- MODULE Spec2Model ----
(***************************************************************************)
(* A model of the ReCiSt self-healing controller: the HealingState phase   *)
(* machine (models/state.rs), the event bus over a tokio broadcast channel *)
(* (eventbus/mod.rs), the agents' event handlers (agents/*.rs) and the     *)
(* HealingEvent reconciler (controller/reconciler.rs).                     *)
(*                                                                         *)
(* Each component has its own specification over the shared variables:     *)
(*   SpecState      HealingState::new / transition_to                      *)
(*   SpecBus        EventBus::subscribe / publish, Receiver::recv,         *)
(*                  FilteredReceiver::recv                                 *)
(*   SpecPipeline   run_check_loop's sweep and the handle_event methods    *)
(*   SpecReconcile  reconcile_event                                        *)
(***************************************************************************)
EXTENDS Integers, Sequences, FiniteSets, TLC

VARIABLES
    now,            \* Utc::now(): a logical clock, it never goes back
    \* ---- HealingState (models/state.rs:8-14) ----
    phase,          \* HealingState.phase
    created_at,     \* HealingState.created_at
    updated_at,     \* HealingState.updated_at
    transitions,    \* HealingState.transitions: Vec<StateTransition>
    ret,            \* what the last transition_to call returned
    \* ---- EventBus over tokio::sync::broadcast (eventbus/mod.rs:11-14) ----
    sent,           \* every event the channel accepted, in order; tail.pos = Len(sent)
    live,           \* the receivers that exist (subscribed, not dropped)
    next,           \* Receiver.next of each receiver: the position it reads next
    sub_pos,        \* the position at which each receiver subscribed (None: never)
    filter,         \* FilteredReceiver.filter.allowed_types (None: a bare Receiver)
    subscribers,    \* EventBus.subscribers: AgentType -> Vec<AgentEventType>
    taken,          \* how many events each receiver's Receiver::recv returned Ok
    delivered,      \* the events recv() returned to each receiver's caller, in order
    lost,           \* the sum of the Lagged(n) counts reported to each receiver
    recv_ret,       \* what the last Receiver::recv of each receiver returned
    pub_ret,        \* what the last publish returned, and for which event
    rejected,       \* ids of the events whose publish returned an error
    uuid,           \* source of Uuid::new_v4(): the last value handed out
    \* ---- the agents (agents/*.rs) ----
    events,         \* the AgentEvents produced so far, in order of production
    cause,          \* for each of them, the id of the event whose handling produced it
    handled,        \* <<agent, event id>>: the agent's handle_event took that event
    handler_ret,    \* what the last handle_event call returned, and of which agent
    sweeps,         \* sweeps of run_check_loop that found a non-empty fault cluster
    qdrant_points,  \* ids of the entries upserted into the vector store
    cache_entries,  \* ids under recist:knowledge:<ns>:entry:<id> in the recency cache
    cache_recent,   \* the list recist:knowledge:<ns>:recent, newest first
    qdrant_calls,   \* ids of the entries upsert_entry was called with
    knowledge_log,  \* the runs of record_healing_event: the entry and how far it got
    \* ---- the HealingEvent reconciler (controller/reconciler.rs) ----
    status,         \* HealingEvent.status as the API server holds it
    observed,       \* the status of the event object handed to reconcile_event
    last_patch,     \* the status patch the last reconcile_event call sent, if any
    action,         \* the Action the last reconcile_event call returned
    \* ---- ContainmentAgent and the cluster's NetworkPolicies (agents/containment.rs) ----
    network_policies,   \* the NetworkPolicy objects the API server holds
    active_isolations,  \* ContainmentAgent.active_isolations: pod name -> IsolationRule
    isolation_ret,      \* what the last isolate_pod / remove_isolation call returned
    api_calls,          \* the API requests that call made, with their results
    isolated,           \* <<namespace, pod>> for which an isolate_pod call has returned Ok
    isolation_calls,    \* isolate_pod and remove_isolation calls made so far
    running,            \* ContainmentAgent.running
    loop_pc,            \* where run_check_loop stands
    loop_ns,            \* how many of its namespaces the current sweep has been through
    loop_fault,         \* the fault of the cluster check_metrics returned, if any
    loop_rounds,        \* sweeps run_check_loop has started
    stopped,            \* stop() was called since the loop last read the flag
    sweep_pc,           \* where the sweep of one namespace stands
    sweep_arg,          \* the namespace swept and what get_all_pod_metrics returned
    sweep_cluster,      \* the FaultCluster check_metrics returned
    sweep_i,            \* how many of its faults the sweep has passed to isolate_pod
    sweep_published,    \* the publish calls of the sweep: correlation id, result
    sweep_isolations,   \* what isolate_pod returned for the faults passed to it so far
    sweep_ns,           \* how many namespaces the `for` of this iteration has been through
    sweep_log,          \* what was done for each of them
    \* ---- MetaCognitiveAgent's cluster operations (agents/metacognitive/mod.rs) ----
    exec_arg,       \* the last execute_strategy call: strategy type, API results
    exec_ret,       \* what it returned
    verify_arg,     \* the last verify_healing call: what the pod lookup returned
    verify_ret,     \* what it returned
    \* ---- LocalKnowledgeCache and KnowledgeAgent's search (clients/redis.rs, agents/knowledge.rs) ----
    entry_fields,   \* error_type and outcome.success of each KnowledgeEntry created
    add_calls,      \* the add_entry calls made so far: the entry's id, what the call returned
    search_arg,     \* the last find_similar_events call: its arguments and the collaborators' replies
    search_ret,     \* what it returned
    \* ---- MetaCognitiveAgent::determine_strategy (agents/metacognitive/mod.rs) ----
    strategy_arg,   \* the last determine_strategy call: root cause, threshold, micro-agent results
    strategy_ret,   \* what it returned
    \* ---- Fault::new (models/fault.rs) ----
    severity_arg,   \* the reasons and metrics a Fault was built from
    severity_ret,   \* the severity calculate_severity gave it
    \* ---- ContainmentAgent::negotiate_with_neighbors (agents/containment.rs) ----
    negotiate_arg,  \* the last call: faulty pod, threshold, the metrics reply
    negotiate_ret,  \* what it returned
    \* ---- KnowledgeEntry (models/knowledge.rs) ----
    knowledge_entry,    \* one KnowledgeEntry: outcome.success, usage_count, success_rate
    usage_log,          \* the arguments of the record_usage calls made on it, in order
    \* ---- ContainmentConfig (crd/self_healing_policy.rs) ----
    isolation_strategy, \* ContainmentAgent.config.isolation_strategy
    \* ---- MicroAgent::evaluate (agents/metacognitive/micro_agent.rs) ----
    micro_pc,           \* where evaluate stands
    micro_arg,          \* the micro-agent: strategy type, root cause, max_depth
    micro_confidence,   \* its local confidence
    micro_depth,        \* its local depth
    micro_replies,      \* what evaluate_strategy answered so far, in order
    micro_ret,          \* what evaluate returned
    \* ---- LocalKnowledgeCache::add_entry, command by command (clients/redis.rs) ----
    add_pc,             \* per task: the Redis command its add_entry call sends next
    add_id,             \* per task: the id of the entry it is adding
    \* ---- MetaCognitiveAgent::handle_event (agents/metacognitive/mod.rs) ----
    meta_handle         \* the last DiagnosisComplete handled: the calls made and what they returned

stateVars == <<phase, created_at, updated_at, transitions, ret>>

busVars ==
    <<sent, live, next, sub_pos, filter, subscribers, taken, delivered,
      lost, recv_ret, pub_ret, rejected, uuid>>

agentVars ==
    <<events, cause, handled, handler_ret, sweeps, qdrant_points, cache_entries,
      cache_recent, qdrant_calls, knowledge_log>>

reconcileVars == <<status, observed, last_patch, action>>

isolationVars ==
    <<network_policies, active_isolations, isolation_ret, api_calls, isolated,
      isolation_calls>>

loopVars == <<running, loop_pc, loop_ns, loop_fault, loop_rounds, stopped>>

sweepVars ==
    <<sweep_pc, sweep_arg, sweep_cluster, sweep_i, sweep_published, sweep_isolations,
      sweep_ns, sweep_log>>

containmentVars == <<isolationVars, loopVars, sweepVars>>

metaVars == <<exec_arg, exec_ret, verify_arg, verify_ret>>

knowledgeVars == <<entry_fields, add_calls, search_arg, search_ret>>

strategyVars == <<strategy_arg, strategy_ret>>

faultVars == <<severity_arg, severity_ret>>

neighborVars == <<negotiate_arg, negotiate_ret>>

usageVars == <<knowledge_entry, usage_log>>

configVars == <<isolation_strategy>>

microVars == <<micro_pc, micro_arg, micro_confidence, micro_depth, micro_replies, micro_ret>>

taskVars == <<add_pc, add_id>>

handleVars == <<meta_handle>>

restVars == <<configVars, microVars, taskVars, handleVars>>

callVars ==
    <<knowledgeVars, strategyVars, faultVars, neighborVars, usageVars, restVars>>

vars == <<now, stateVars, busVars, agentVars, reconcileVars, containmentVars, metaVars, callVars>>

\* ------------------------------------------------------------------------
\* Bounds of the model
\* ------------------------------------------------------------------------

\* the clock stops advancing here
MaxTime == 1

\* transition_to is not called any more once the log holds this many records
MaxTransitions == 7

\* CHANNEL_CAPACITY (eventbus/mod.rs:9) is 1024 in the source; the model runs
\* the same channel with a small ring so that a receiver can fall behind it
CHANNEL_CAPACITY == 2

\* publish is not called any more after this many calls
MaxPublish == 4

\* sweeps that find a fault, each starting one incident
MaxIncidents == 1

\* isolate_pod and remove_isolation are not called any more after this many calls
MaxIsolationCalls == 3

\* run_check_loop starts no further sweep after this many
MaxLoopRounds == 2

\* containers of the pod verify_healing looks up
MaxContainers == 2

\* KnowledgeConfig.max_local_events (100 by default), scaled down
MaxLocalEvents == 2

\* add_entry calls made on one recency cache
MaxAddCalls == 3

\* the limit find_similar_events passes to the vector store
MaxSearchResults == 2

\* MetaCognitiveConfig.max_micro_agents (5 by default), scaled down
MaxMicroAgents == 3

\* the length of the reason list a Fault is built from
MaxReasons == 2

\* record_usage calls made on one KnowledgeEntry
MaxUsages == 6

\* the largest max_reasoning_depth a micro-agent is given
MaxReasoningDepth == 3

\* ------------------------------------------------------------------------
\* crd/healing_event.rs: HealingPhase
\* ------------------------------------------------------------------------

HealingPhase ==
    {"Pending", "Containing", "Diagnosing", "Healing", "Verifying",
     "Completed", "Failed"}

\* Option::None, for every optional field
None == "None"

\* the reasons a caller passes to transition_to (Option<String>)
Reasons == {None, "reason"}

\* Utc::now() read at two successive statements may differ: the clock moves
Tick ==
    /\ now < MaxTime
    /\ now' = now + 1

\* ------------------------------------------------------------------------
\* models/events.rs: AgentEvent
\* ------------------------------------------------------------------------

\* the kinds of event the agents publish on the bus themselves
\* (containment.rs:304-307, knowledge.rs:99-100)
BusEventTypes == {"FaultDetected", "KnowledgeUpdated"}

\* the source agent each AgentEvent constructor sets (events.rs:34-100)
SourceAgent(event_type) ==
    CASE event_type = "FaultDetected" -> "Containment"
      [] event_type = "ContainmentComplete" -> "Containment"
      [] event_type = "DiagnosisComplete" -> "Diagnosis"
      [] event_type = "HealingComplete" -> "MetaCognitive"
      [] event_type = "KnowledgeUpdated" -> "Knowledge"

\* the event as the bus sees it: AgentEvent::new draws a fresh id
BusEvent(id, event_type) ==
    [id |-> id, event_type |-> event_type, source_agent |-> SourceAgent(event_type)]

\* ------------------------------------------------------------------------
\* eventbus/mod.rs: EventBus, EventFilter, FilteredReceiver
\* ------------------------------------------------------------------------

\* the agents that take a receiver from the bus
Receivers == {"Diagnosis", "Knowledge"}

\* the event_types lists passed to subscribe and to EventFilter::new
FilterChoices == {{}, {"FaultDetected"}}

\* what the caller does with the receiver subscribe returns: keep the bare
\* Receiver, or FilteredReceiver::new(receiver, EventFilter::new(allowed_types))
BareReceiver == [wrapped |-> FALSE, allowed_types |-> {}]

FilteredReceiver(allowed_types) == [wrapped |-> TRUE, allowed_types |-> allowed_types]

\* the Diagnosis agent reads its bare Receiver (as the test at
\* eventbus/mod.rs:129-138 does); the Knowledge agent wraps its receiver in a
\* FilteredReceiver over the kinds it subscribed to
Wrap(agent, event_types) ==
    IF agent = "Knowledge" THEN FilteredReceiver(event_types) ELSE BareReceiver

RECURSIVE PowerOfTwoFrom(_, _)
PowerOfTwoFrom(p, n) == IF p >= n THEN p ELSE PowerOfTwoFrom(2 * p, n)

\* broadcast::channel(capacity) rounds the ring up to a power of two
BufLen == PowerOfTwoFrom(1, CHANNEL_CAPACITY)

\* EventBus::new(): no event sent, and the channel's first receiver is dropped
\* at once (let (sender, _) = broadcast::channel(..)), so nobody is subscribed
InitBus ==
    /\ sent = <<>>
    /\ live = {}
    /\ next = [r \in Receivers |-> 0]
    /\ sub_pos = [r \in Receivers |-> -1]
    /\ filter = [r \in Receivers |-> BareReceiver]
    /\ subscribers = [r \in Receivers |-> [present |-> FALSE, event_types |-> {}]]
    /\ taken = [r \in Receivers |-> 0]
    /\ delivered = [r \in Receivers |-> <<>>]
    /\ lost = [r \in Receivers |-> 0]
    /\ recv_ret = [r \in Receivers |-> [res |-> "NotCalled", n |-> 0]]
    /\ pub_ret = [ok |-> FALSE, err |-> "NotCalled", id |-> 0]
    /\ rejected = {}
    /\ uuid = 0

\* EventBus::subscribe(agent, event_types): records the kinds in the
\* subscribers map and returns sender.subscribe(), a receiver that starts at
\* the tail.
subscribe(agent, event_types) ==
    /\ sub_pos[agent] = -1
    /\ subscribers' = [subscribers EXCEPT ![agent] = [present |-> TRUE, event_types |-> event_types]]
    /\ live' = live \cup {agent}
    /\ next' = [next EXCEPT ![agent] = Len(sent)]
    /\ sub_pos' = [sub_pos EXCEPT ![agent] = Len(sent)]
    /\ filter' = [filter EXCEPT ![agent] = Wrap(agent, event_types)]
    /\ UNCHANGED <<sent, taken, delivered, lost, recv_ret, pub_ret, rejected, uuid>>
    /\ UNCHANGED <<now, stateVars, agentVars, reconcileVars, containmentVars, metaVars, callVars>>

\* the receiver is dropped: rx_cnt goes down by one
drop_receiver(r) ==
    /\ r \in live
    /\ live' = live \ {r}
    /\ UNCHANGED <<sent, next, sub_pos, filter, subscribers, taken, delivered,
                   lost, recv_ret, pub_ret, rejected, uuid>>
    /\ UNCHANGED <<now, stateVars, agentVars, reconcileVars, containmentVars, metaVars, callVars>>

\* a send that stores the value whether or not a receiver exists
send_without_receiver_check(buffer, rx, value) ==
    [ok |-> TRUE, buffer |-> Append(buffer, value)]

\* a send that puts the value in front of the queued ones
send_in_front(buffer, rx, value) ==
    IF rx = {}
    THEN [ok |-> FALSE, buffer |-> buffer]
    ELSE [ok |-> TRUE, buffer |-> <<value>> \o buffer]

\* broadcast::Sender::send: Err(SendError) and nothing stored when rx_cnt = 0,
\* else the value goes to the slot at tail.pos and tail.pos moves on
send(buffer, rx, value) ==
    IF rx = {}
    THEN [ok |-> FALSE, buffer |-> buffer]
    ELSE [ok |-> TRUE, buffer |-> Append(buffer, value)]

\* EventBus::publish(event): the event is built by AgentEvent::new (fresh id)
publish(event_type) ==
    /\ uuid < MaxPublish
    /\ LET event == BusEvent(uuid + 1, event_type)
           r == send(sent, live, event)
       IN /\ uuid' = uuid + 1
          /\ sent' = r.buffer
          /\ IF r.ok
             THEN /\ pub_ret' = [ok |-> TRUE, err |-> None, id |-> event.id]
                  /\ UNCHANGED rejected
             ELSE /\ pub_ret' = [ok |-> FALSE, err |-> "EventBusError", id |-> event.id]
                  /\ rejected' = rejected \cup {event.id}
    /\ UNCHANGED <<live, next, sub_pos, filter, subscribers, taken, delivered,
                   lost, recv_ret>>
    /\ UNCHANGED <<now, stateVars, agentVars, reconcileVars, containmentVars, metaVars, callVars>>

\* a recv that, having lagged, jumps to the tail and reports nothing lost
recv_ref_skip_to_tail(buffer, nxt) ==
    IF nxt = Len(buffer)
    THEN [res |-> "Empty", n |-> 0, next |-> nxt]
    ELSE IF nxt + BufLen < Len(buffer)
         THEN [res |-> "Lagged", n |-> 0, next |-> Len(buffer)]
         ELSE [res |-> "Ok", n |-> nxt + 1, next |-> nxt + 1]

\* a recv that returns the value and leaves the read position where it was
recv_ref_no_advance(buffer, nxt) ==
    IF nxt = Len(buffer)
    THEN [res |-> "Empty", n |-> 0, next |-> nxt]
    ELSE IF nxt + BufLen < Len(buffer)
         THEN [res |-> "Lagged", n |-> Len(buffer) - BufLen - nxt,
               next |-> Len(buffer) - BufLen]
         ELSE [res |-> "Ok", n |-> nxt + 1, next |-> nxt]

\* broadcast::Receiver::recv at read position nxt. Nothing to read: the call
\* waits (Empty); the publishers hold the bus throughout, so a Sender always
\* exists. The slot at nxt
\* overwritten (the receiver is more than the ring behind): Lagged(missed),
\* and the position jumps to the oldest retained value, tail.pos - ring.
\* Otherwise the value at nxt (n is its index in the buffer), position + 1.
recv_ref(buffer, nxt) ==
    IF nxt = Len(buffer)
    THEN [res |-> "Empty", n |-> 0, next |-> nxt]
    ELSE IF nxt + BufLen < Len(buffer)
         THEN [res |-> "Lagged", n |-> Len(buffer) - BufLen - nxt,
               next |-> Len(buffer) - BufLen]
         ELSE [res |-> "Ok", n |-> nxt + 1, next |-> nxt + 1]

\* a filter that takes an empty list to allow nothing
matches_listed_only(allowed_types, event) == event.event_type \in allowed_types

\* EventFilter::matches
matches(allowed_types, event) ==
    allowed_types = {} \/ event.event_type \in allowed_types

\* one receiver.recv().await of receiver r. A bare Receiver hands each result
\* to its caller. FilteredReceiver::recv loops: a matching event is returned,
\* another one skipped, Lagged(n) is logged (warn!) and the loop goes on.
recv(r) ==
    /\ r \in live
    /\ LET got == recv_ref(sent, next[r])
       IN /\ got.res # "Empty"
          /\ next' = [next EXCEPT ![r] = got.next]
          /\ recv_ret' = [recv_ret EXCEPT ![r] = [res |-> got.res, n |-> got.n]]
          /\ taken' = [taken EXCEPT ![r] = IF got.res = "Ok" THEN @ + 1 ELSE @]
          /\ lost' = [lost EXCEPT ![r] = IF got.res = "Lagged" THEN @ + got.n ELSE @]
          /\ delivered' =
                 [delivered EXCEPT ![r] =
                     IF got.res = "Ok" /\ (~filter[r].wrapped \/ matches(filter[r].allowed_types, sent[got.n]))
                     THEN Append(@, sent[got.n])
                     ELSE @]
    /\ UNCHANGED <<sent, live, sub_pos, filter, subscribers, pub_ret, rejected, uuid>>
    /\ UNCHANGED <<now, stateVars, agentVars, reconcileVars, containmentVars, metaVars, callVars>>

Subscribe == \E agent \in Receivers, event_types \in FilterChoices :
    subscribe(agent, event_types)

DropReceiver == \E r \in Receivers : drop_receiver(r)

Publish == \E event_type \in BusEventTypes : publish(event_type)

Recv == \E r \in Receivers : recv(r)

\* ------------------------------------------------------------------------
\* models/state.rs: HealingState
\* ------------------------------------------------------------------------

StateTransition(from, to, timestamp, reason) ==
    [from |-> from, to |-> to, timestamp |-> timestamp, reason |-> reason]

\* Result<()> of transition_to
OkUnit == [ok |-> TRUE, err |-> None, from |-> None, to |-> None]

InvalidStateTransition(from, to) ==
    [ok |-> FALSE, err |-> "InvalidStateTransition", from |-> from, to |-> to]

\* no call has returned yet
NotCalled == [ok |-> FALSE, err |-> "NotCalled", from |-> None, to |-> None]

\* HealingState::new(): Pending, one "Initial state" record with from = None
InitState ==
    /\ phase = "Pending"
    /\ created_at = now
    /\ updated_at = now
    /\ transitions = <<StateTransition(None, "Pending", now, "Initial state")>>
    /\ ret = NotCalled

\* a table that forgets the catch-all arm (_, Failed)
is_valid_transition_no_catch_all(current, target) ==
    \/ current = "Pending" /\ target = "Containing"
    \/ current = "Containing" /\ target = "Diagnosing"
    \/ current = "Diagnosing" /\ target = "Healing"
    \/ current = "Healing" /\ target = "Verifying"
    \/ current = "Verifying" /\ target = "Completed"
    \/ current = "Verifying" /\ target = "Failed"

\* a table whose Completed arm matches any source phase
is_valid_transition_any_completed(current, target) ==
    \/ current = "Pending" /\ target = "Containing"
    \/ current = "Containing" /\ target = "Diagnosing"
    \/ current = "Diagnosing" /\ target = "Healing"
    \/ current = "Healing" /\ target = "Verifying"
    \/ target = "Completed"
    \/ target = "Failed"

\* HealingState::is_valid_transition: the match on (self.phase, target), arm by arm
is_valid_transition(current, target) ==
    CASE current = "Pending" /\ target = "Containing" -> TRUE
      [] current = "Containing" /\ target = "Diagnosing" -> TRUE
      [] current = "Diagnosing" /\ target = "Healing" -> TRUE
      [] current = "Healing" /\ target = "Verifying" -> TRUE
      [] current = "Verifying" /\ target = "Completed" -> TRUE
      [] current = "Verifying" /\ target = "Failed" -> TRUE
      [] target = "Failed" -> TRUE
      [] OTHER -> FALSE

\* a push that runs after self.phase = target, so that from is the new phase
push_transition_after_assign(log, from, to, timestamp, reason) ==
    Append(log, StateTransition(to, to, timestamp, reason))

\* self.transitions.push(StateTransition { from: Some(self.phase), to: target, .. })
push_transition(log, from, to, timestamp, reason) ==
    Append(log, StateTransition(from, to, timestamp, reason))

\* HealingState::transition_to(target, reason)
transition_to(target, reason) ==
    /\ Len(transitions) < MaxTransitions
    /\ IF ~is_valid_transition(phase, target)
       THEN /\ ret' = InvalidStateTransition(phase, target)
            /\ UNCHANGED <<phase, created_at, updated_at, transitions>>
       ELSE /\ transitions' = push_transition(transitions, phase, target, now, reason)
            /\ phase' = target
            /\ updated_at' = now
            /\ ret' = OkUnit
            /\ UNCHANGED created_at
    /\ UNCHANGED <<now, busVars, agentVars, reconcileVars, containmentVars, metaVars, callVars>>

\* HealingState::is_terminal
is_terminal(p) == p \in {"Completed", "Failed"}

\* HealingState::duration_ms, in ticks of the clock
duration_ms ==
    LET end == IF is_terminal(phase) THEN updated_at ELSE now
    IN end - created_at

StateTick == Tick /\ UNCHANGED <<stateVars, busVars, agentVars, reconcileVars, containmentVars, metaVars, callVars>>

\* a caller drives one HealingState with arbitrary transition_to calls
CallTransitionTo == \E target \in HealingPhase, reason \in Reasons : transition_to(target, reason)

\* ------------------------------------------------------------------------
\* agents/containment.rs: isolate_pod and remove_isolation over the
\* NetworkPolicy API of the cluster
\* ------------------------------------------------------------------------

\* the pods whose metrics a sweep may find above a threshold
Pods == {"p1", "p2"}

Namespaces == {"ns1", "ns2"}

\* FaultSeverity in its derived order (models/fault.rs:100-106)
SeverityRank(severity) ==
    CASE severity = "Low" -> 0
      [] severity = "Medium" -> 1
      [] severity = "High" -> 2
      [] severity = "Critical" -> 3

\* Fault: the fields isolate_pod reads
Fault(pod_name, namespace, severity) ==
    [pod_name |-> pod_name, namespace |-> namespace, severity |-> severity]

\* the faults check_metrics reports in the model: a pod name that occurs in
\* two namespaces, a second pod, and both sides of the severity test
Faults ==
    {Fault("p1", "ns1", "Critical"), Fault("p1", "ns2", "High"),
     Fault("p2", "ns1", "High")}

\* IsolationStrategy (crd/self_healing_policy.rs:169-173)
IsolationStrategies == {"Soft", "Hard", "Auto"}

\* determine_isolation_strategy with the Auto arm for every configuration
determine_isolation_strategy_auto_only(fault) ==
    IF SeverityRank(fault.severity) >= SeverityRank("Critical") THEN "Hard" ELSE "Soft"

\* ContainmentAgent::determine_isolation_strategy
determine_isolation_strategy(fault) ==
    IF isolation_strategy = "Auto"
    THEN IF SeverityRank(fault.severity) >= SeverityRank("Critical") THEN "Hard" ELSE "Soft"
    ELSE isolation_strategy

\* format!("recist-isolate-{}", pod_name)
policy_name(pod_name) == "recist-isolate-" \o pod_name

\* Option<Vec<NetworkPolicyIngressRule>> / Option<Vec<NetworkPolicyEgressRule>>
RuleList(some, rules) == [some |-> some, rules |-> rules]

\* ContainmentAgent::create_network_policy: name, pod selector, policy types,
\* ingress: Some(vec![]), egress: Some(vec![]) for Hard and None otherwise
create_network_policy(name, pod_name, strategy) ==
    [name |-> name,
     pod_selector |-> pod_name,
     policy_types |-> IF strategy = "Hard" THEN <<"Ingress", "Egress">> ELSE <<"Ingress">>,
     ingress |-> RuleList(TRUE, <<>>),
     egress |-> IF strategy = "Hard" THEN RuleList(TRUE, <<>>) ELSE RuleList(FALSE, <<>>)]

\* how the API server answers a request: it serves it, or the request fails
\* with an error other than 409 / 404 (5xx, timeout) and changes nothing
ApiOutcomes == {"served", "error"}

\* the policies of that name in the namespace
Named(policies, namespace, name) ==
    {q \in policies : q.namespace = namespace /\ q.name = name}

\* a create that stores the object although the name is taken
create_no_conflict(policies, namespace, policy, outcome) ==
    IF outcome = "error"
    THEN [res |-> "error", policies |-> policies]
    ELSE [res |-> "ok",
          policies |-> policies \cup
              {[namespace |-> namespace, name |-> policy.name,
                pod_selector |-> policy.pod_selector,
                policy_types |-> policy.policy_types,
                ingress |-> policy.ingress,
                egress |-> policy.egress,
                copy |-> Cardinality(Named(policies, namespace, policy.name)) + 1]}]

\* api.create(&PostParams::default(), &network_policy): 409 when the namespace
\* holds an object of that name
create(policies, namespace, policy, outcome) ==
    IF outcome = "error"
    THEN [res |-> "error", policies |-> policies]
    ELSE IF Named(policies, namespace, policy.name) # {}
    THEN [res |-> "409", policies |-> policies]
    ELSE [res |-> "ok",
          policies |-> policies \cup
              {[namespace |-> namespace, name |-> policy.name,
                pod_selector |-> policy.pod_selector,
                policy_types |-> policy.policy_types,
                ingress |-> policy.ingress,
                egress |-> policy.egress,
                copy |-> 1]}]

\* api.delete(&policy_name, &DeleteParams::default()): 404 when the namespace
\* holds no object of that name
delete(policies, namespace, name, outcome) ==
    IF outcome = "error"
    THEN [res |-> "error", policies |-> policies]
    ELSE IF Named(policies, namespace, name) = {}
    THEN [res |-> "404", policies |-> policies]
    ELSE [res |-> "ok", policies |-> policies \ Named(policies, namespace, name)]

\* IsolationRule (models/fault.rs:120-126)
IsolationRule(pod_name, namespace, network_policy_name, at, rule_type) ==
    [pod_name |-> pod_name, namespace |-> namespace,
     network_policy_name |-> network_policy_name, created_at |-> at,
     rule_type |-> rule_type]

\* no entry under the key in active_isolations; no rule returned
NoRule == IsolationRule(None, None, None, 0, None)

\* one API request of a call and its result
ApiCall(verb, res) == [verb |-> verb, res |-> res]

\* what isolate_pod / remove_isolation returned, and for which pod
IsolationRet(op, pod_name, namespace, ok, rule) ==
    [op |-> op, pod_name |-> pod_name, namespace |-> namespace, ok |-> ok,
     err |-> IF ok THEN None ELSE "KubeError", rule |-> rule]

\* an insert that is lost
insert_dropped(isolations, pod_name, rule) == isolations

\* isolations.insert(fault.pod_name.clone(), rule.clone())
insert(isolations, pod_name, rule) == [isolations EXCEPT ![pod_name] = rule]

\* a remove_isolation that also takes a 404 for an error
delete_is_done_ok_only(res) == res = "ok"

\* the arms of remove_isolation's match that go on to remove the map entry:
\* Ok(_) and Err(Api(ae)) if ae.code == 404
delete_is_done(res) == res \in {"ok", "404"}

\* ContainmentAgent::isolate_pod(fault) at time at, given the outcomes of its
\* up to three API requests: the new cluster state, the new map, what the call
\* returned and the requests it made
isolate_pod(policies, isolations, fault, at, o1, o2, o3) ==
    LET strategy == determine_isolation_strategy(fault)
        name == policy_name(fault.pod_name)
        network_policy == create_network_policy(name, fault.pod_name, strategy)
        rule == IsolationRule(fault.pod_name, fault.namespace, name, at,
                              IF strategy = "Hard" THEN "DenyAll" ELSE "DenyIngress")
        first == create(policies, fault.namespace, network_policy, o1)
        deleted == delete(first.policies, fault.namespace, name, o2)
        second == create(deleted.policies, fault.namespace, network_policy, o3)
        Stored(cluster, calls) ==
            [policies |-> cluster,
             isolations |-> insert(isolations, fault.pod_name, rule),
             ret |-> IsolationRet("isolate_pod", fault.pod_name, fault.namespace, TRUE, rule),
             calls |-> calls]
        Failed(cluster, calls) ==
            [policies |-> cluster,
             isolations |-> isolations,
             ret |-> IsolationRet("isolate_pod", fault.pod_name, fault.namespace, FALSE, NoRule),
             calls |-> calls]
    IN CASE first.res = "ok" ->
              Stored(first.policies, <<ApiCall("create", "ok")>>)
         [] first.res = "409" ->
              LET calls == <<ApiCall("create", "409"), ApiCall("delete", deleted.res),
                             ApiCall("create", second.res)>>
              IN IF second.res = "ok"
                 THEN Stored(second.policies, calls)
                 ELSE Failed(second.policies, calls)
         [] OTHER ->
              Failed(first.policies, <<ApiCall("create", first.res)>>)

\* ContainmentAgent::remove_isolation(pod_name, namespace), given the outcome
\* of its delete request
remove_isolation(policies, isolations, pod_name, namespace, o1) ==
    LET name == policy_name(pod_name)
        deleted == delete(policies, namespace, name, o1)
        calls == <<ApiCall("delete", deleted.res)>>
    IN IF delete_is_done(deleted.res)
       THEN [policies |-> deleted.policies,
             isolations |-> [isolations EXCEPT ![pod_name] = NoRule],
             ret |-> IsolationRet("remove_isolation", pod_name, namespace, TRUE, NoRule),
             calls |-> calls]
       ELSE [policies |-> deleted.policies,
             isolations |-> isolations,
             ret |-> IsolationRet("remove_isolation", pod_name, namespace, FALSE, NoRule),
             calls |-> calls]

\* ContainmentAgent::new: no isolations, not running; the cluster holds no
\* isolation policy yet and run_check_loop has not been called
InitContainment ==
    /\ network_policies = {}
    /\ active_isolations = [pod_name \in Pods |-> NoRule]
    /\ isolation_ret = [IsolationRet("NotCalled", None, None, FALSE, NoRule)
                           EXCEPT !.err = None]
    /\ api_calls = <<>>
    /\ isolated = {}
    /\ isolation_calls = 0
    /\ running = FALSE
    /\ loop_pc = "idle"
    /\ loop_ns = 0
    /\ loop_fault = Fault(None, None, None)
    /\ loop_rounds = 0
    /\ stopped = FALSE
    /\ isolation_strategy = "Auto"

\* ContainmentAgent::new(prometheus, event_bus, config, thresholds), before any
\* method of the agent is called: the agent keeps the configuration it is
\* given, its map is empty and running is false
new_containment_agent(config_isolation_strategy) ==
    /\ isolation_calls = 0
    /\ isolation_strategy' = config_isolation_strategy
    /\ active_isolations' = [pod_name \in Pods |-> NoRule]
    /\ running' = FALSE
    /\ UNCHANGED <<network_policies, isolation_ret, api_calls, isolated, isolation_calls>>
    /\ UNCHANGED <<loop_pc, loop_ns, loop_fault, loop_rounds, stopped, sweepVars>>
    /\ UNCHANGED <<knowledgeVars, strategyVars, faultVars, neighborVars, usageVars, microVars,
                   taskVars, handleVars>>
    /\ UNCHANGED <<now, stateVars, busVars, agentVars, reconcileVars, metaVars>>

\* the faults of the configured-strategy runs: every severity, each on a pod
\* and namespace of its own
SeverityFaults ==
    {Fault("p1", "ns1", "Critical"), Fault("p1", "ns2", "High"),
     Fault("p2", "ns1", "Medium"), Fault("p2", "ns2", "Low")}

NewContainmentAgent ==
    \E config_isolation_strategy \in IsolationStrategies :
        new_containment_agent(config_isolation_strategy)

\* a call of isolate_pod(fault), by whichever caller
isolate_pod_call(fault) ==
    /\ isolation_calls < MaxIsolationCalls
    /\ isolation_calls' = isolation_calls + 1
    /\ \E o1 \in ApiOutcomes, o2 \in ApiOutcomes, o3 \in ApiOutcomes :
          LET r == isolate_pod(network_policies, active_isolations, fault, now, o1, o2, o3)
          IN /\ network_policies' = r.policies
             /\ active_isolations' = r.isolations
             /\ isolation_ret' = r.ret
             /\ api_calls' = r.calls
             /\ isolated' = IF r.ret.ok
                            THEN isolated \cup {<<fault.namespace, fault.pod_name>>}
                            ELSE isolated
    /\ UNCHANGED <<now, stateVars, busVars, agentVars, reconcileVars, metaVars, callVars>>

\* a call of isolate_pod(fault) from outside the loop
IsolatePod(fault) ==
    /\ isolate_pod_call(fault)
    /\ UNCHANGED <<loopVars, sweepVars>>

\* a call of remove_isolation(pod_name, namespace)
RemoveIsolation(pod_name, namespace) ==
    /\ isolation_calls < MaxIsolationCalls
    /\ isolation_calls' = isolation_calls + 1
    /\ \E o1 \in ApiOutcomes :
          LET r == remove_isolation(network_policies, active_isolations, pod_name,
                                    namespace, o1)
          IN /\ network_policies' = r.policies
             /\ active_isolations' = r.isolations
             /\ isolation_ret' = r.ret
             /\ api_calls' = r.calls
    /\ UNCHANGED isolated
    /\ UNCHANGED <<now, stateVars, busVars, agentVars, reconcileVars, loopVars, sweepVars, metaVars,
                   callVars>>

CallIsolatePod == \E fault \in Faults : IsolatePod(fault)

\* a call of isolate_pod under the configured strategy
IsolateSeverityFault == \E fault \in SeverityFaults : IsolatePod(fault)

CallRemoveIsolation ==
    \E fault \in Faults : RemoveIsolation(fault.pod_name, fault.namespace)

\* ------------------------------------------------------------------------
\* agents/metacognitive/mod.rs: execute_strategy and verify_healing
\* ------------------------------------------------------------------------

\* StrategyType (models/solution.rs:43-51)
StrategyTypes ==
    {"PodRestart", "HorizontalScale", "VerticalScale", "ConfigUpdate",
     "DependencyRestart", "NetworkIsolation", "Composite"}

\* StrategyType::to_action_type
to_action_type(strategy_type) ==
    IF strategy_type = "Composite" THEN "PodRestart" ELSE strategy_type

\* how the API server answers a get, delete or patch of a named object
ApiResults == {"ok", "404", "error"}

\* Result<()>: Ok(()) or Err(RecistError::KubeError(e))
UnitResult(res) == [ok |-> res = "ok", err |-> IF res = "ok" THEN None ELSE res]

\* execute_pod_restart: pods.delete(pod_name, ..).await.map_err(KubeError)?
execute_pod_restart(delete_res) == UnitResult(delete_res)

\* execute_horizontal_scale: deployments.get(..)?, then deployments.patch(..)?
\* with the replicas raised by additional_replicas
execute_horizontal_scale(get_res, patch_res) ==
    IF get_res # "ok" THEN UnitResult(get_res) ELSE UnitResult(patch_res)

\* execute_vertical_scale: deployments.patch(.. Patch::Strategic ..)?
execute_vertical_scale(patch_res) == UnitResult(patch_res)

\* ActionResult (models/solution.rs:196-203): the fields that depend on the run
ActionResult(action_type, success, message) ==
    [action_type |-> action_type, success |-> success, message |-> message]

\* Result<ActionResult>
ExecRet(ok, result) == [ok |-> ok, result |-> result]

\* an Err arm that hands the error on to the caller
report_propagating(strategy_type, result) ==
    IF result.ok
    THEN ExecRet(TRUE, ActionResult(to_action_type(strategy_type), TRUE,
                                    <<"Strategy executed successfully", None>>))
    ELSE ExecRet(FALSE, ActionResult(None, FALSE, <<"KubeError", result.err>>))

\* match result { Ok(()) => Ok(ActionResult { success: true, .. }),
\*                Err(e) => Ok(ActionResult { success: false,
\*                                            message: format!("Strategy failed: {}", e), .. }) }
report(strategy_type, result) ==
    IF result.ok
    THEN ExecRet(TRUE, ActionResult(to_action_type(strategy_type), TRUE,
                                    <<"Strategy executed successfully", None>>))
    ELSE ExecRet(TRUE, ActionResult(to_action_type(strategy_type), FALSE,
                                    <<"Strategy failed", result.err>>))

\* the requests execute_strategy may send and their results: a get, and a
\* write (delete or patch)
ExecArg(strategy_type, get_res, write_res) ==
    [strategy_type |-> strategy_type, get_res |-> get_res, write_res |-> write_res]

\* MetaCognitiveAgent::execute_strategy
execute_strategy(arg) ==
    LET result ==
            CASE arg.strategy_type = "PodRestart" -> execute_pod_restart(arg.write_res)
              [] arg.strategy_type = "HorizontalScale" ->
                     execute_horizontal_scale(arg.get_res, arg.write_res)
              [] arg.strategy_type = "VerticalScale" -> execute_vertical_scale(arg.write_res)
              [] arg.strategy_type = "NetworkIsolation" -> UnitResult("ok")
              [] OTHER -> execute_pod_restart(arg.write_res)
    IN report(arg.strategy_type, result)

\* what pods.get(pod_name) returned: an error, or a pod with or without
\* status, status.phase and status.container_statuses (ready flags)
PodLookup(res, has_status, status_phase, has_container_statuses, ready) ==
    [res |-> res, has_status |-> has_status, phase |-> status_phase,
     has_container_statuses |-> has_container_statuses, ready |-> ready]

\* the ready flags of up to MaxContainers containers
ReadyFlags == UNION {[1..n -> BOOLEAN] : n \in 0..MaxContainers}

\* PodStatus.phase: absent, or one of the phases the cluster reports
PodPhases == {None, "Pending", "Running", "Failed"}

PodLookups ==
    {PodLookup("404", FALSE, None, FALSE, <<>>),
     PodLookup("error", FALSE, None, FALSE, <<>>),
     PodLookup("ok", FALSE, None, FALSE, <<>>)}
    \cup {PodLookup("ok", TRUE, status_phase, FALSE, <<>>) : status_phase \in PodPhases}
    \cup {PodLookup("ok", TRUE, status_phase, TRUE, ready) :
             status_phase \in PodPhases, ready \in ReadyFlags}

\* Result<bool>
VerifyRet(ok, value) == [ok |-> ok, value |-> value, err |-> IF ok THEN None ELSE "KubeError"]

\* an all_ready that takes missing container statuses for ready
all_ready_by_default(lookup) ==
    IF lookup.has_status /\ lookup.has_container_statuses
    THEN \A i \in 1..Len(lookup.ready) : lookup.ready[i]
    ELSE TRUE

\* pod.status.and_then(|s| s.container_statuses).map(|cs| cs.iter().all(|c| c.ready))
\*    .unwrap_or(false)
all_ready(lookup) ==
    IF lookup.has_status /\ lookup.has_container_statuses
    THEN \A i \in 1..Len(lookup.ready) : lookup.ready[i]
    ELSE FALSE

\* pod.status.and_then(|s| s.phase).unwrap_or("Unknown")
pod_phase(lookup) ==
    IF lookup.has_status /\ lookup.phase # None THEN lookup.phase ELSE "Unknown"

\* MetaCognitiveAgent::verify_healing, after its sleep
verify_healing(lookup) ==
    CASE lookup.res = "ok" -> VerifyRet(TRUE, pod_phase(lookup) = "Running" /\ all_ready(lookup))
      [] lookup.res = "404" -> VerifyRet(TRUE, TRUE)
      [] OTHER -> VerifyRet(FALSE, FALSE)

\* no call yet
InitMetaCognitive ==
    /\ exec_arg = ExecArg(None, None, None)
    /\ exec_ret = ExecRet(FALSE, ActionResult(None, FALSE, <<"NotCalled", None>>))
    /\ verify_arg = PodLookup(None, FALSE, None, FALSE, <<>>)
    /\ verify_ret = [VerifyRet(FALSE, FALSE) EXCEPT !.err = "NotCalled"]

\* a call of execute_strategy(strategy, namespace, pod_name)
ExecuteStrategy ==
    /\ \E strategy_type \in StrategyTypes, get_res \in ApiResults, write_res \in ApiResults :
          /\ exec_arg' = ExecArg(strategy_type, get_res, write_res)
          /\ exec_ret' = execute_strategy(ExecArg(strategy_type, get_res, write_res))
    /\ UNCHANGED <<verify_arg, verify_ret>>
    /\ UNCHANGED <<now, stateVars, busVars, agentVars, reconcileVars, containmentVars, callVars>>

\* a call of verify_healing(namespace, pod_name)
VerifyHealing ==
    /\ \E lookup \in PodLookups :
          /\ verify_arg' = lookup
          /\ verify_ret' = verify_healing(lookup)
    /\ UNCHANGED <<exec_arg, exec_ret>>
    /\ UNCHANGED <<now, stateVars, busVars, agentVars, reconcileVars, containmentVars, callVars>>

\* ------------------------------------------------------------------------
\* agents/*.rs: the sweep that starts an incident and the four handle_event
\* methods. An agent's handle_event is given the events that exist: those
\* published on the bus and those an earlier handler returned.
\* ------------------------------------------------------------------------

Agents == {"Containment", "Diagnosis", "MetaCognitive", "Knowledge"}

\* AgentEvent::new(event_type, source_agent, correlation_id, payload); of the
\* payload the model keeps the primary fault's pod (FaultDetected) and the
\* success flag (HealingComplete)
AgentEvent(id, event_type, correlation_id, pod, success) ==
    [id |-> id, event_type |-> event_type, source_agent |-> SourceAgent(event_type),
     correlation_id |-> correlation_id, pod |-> pod, success |-> success]

\* Ok(Some(event)), Ok(None) or Err(..) of handle_event
HandlerRet(agent, res) == [agent |-> agent, res |-> res]

\* Agent::subscribe_to() of the two agents that hold a receiver in the model
subscribe_to(agent) ==
    IF agent = "Diagnosis"
    THEN {"FaultDetected", "ContainmentComplete"}
    ELSE {"HealingComplete"}

InitAgents ==
    /\ events = <<>>
    /\ cause = <<>>
    /\ handled = {}
    /\ handler_ret = HandlerRet(None, "NotCalled")
    /\ sweeps = 0
    /\ qdrant_points = {}
    /\ cache_entries = {}
    /\ cache_recent = <<>>
    /\ qdrant_calls = {}
    /\ knowledge_log = {}

\* the agent takes its receiver from the bus when it is set up
start_agent(agent) ==
    /\ LET sub == subscribe(agent, subscribe_to(agent)) IN sub
    /\ UNCHANGED agentVars

\* run_check_loop, the step of a sweep that follows the isolation of a
\* non-empty cluster's faults (containment.rs:303-309), for a cluster whose
\* primary fault is on pod: a fresh correlation id, the FaultDetected event,
\* publish; a publish error is logged and the loop goes on
fault_detected(pod) ==
    /\ sweeps < MaxIncidents
    /\ sweeps' = sweeps + 1
    /\ LET correlation_id == uuid + 1
           event == AgentEvent(uuid + 2, "FaultDetected", correlation_id, pod, FALSE)
           r == send(events, live, event)
       IN /\ uuid' = uuid + 2
          /\ events' = r.buffer
          /\ cause' = IF r.ok THEN Append(cause, 0) ELSE cause
    /\ UNCHANGED <<handled, handler_ret, qdrant_points, cache_entries, cache_recent,
                   qdrant_calls, knowledge_log>>
    /\ UNCHANGED <<sent, live, next, sub_pos, filter, subscribers, taken, delivered,
                   lost, recv_ret, pub_ret, rejected>>
    /\ UNCHANGED <<now, stateVars, reconcileVars, isolationVars, metaVars, callVars>>

\* that step of a loop whose position the incident pipeline does not follow
sweep(pod) ==
    /\ fault_detected(pod)
    /\ UNCHANGED <<loopVars, sweepVars>>

\* a Diagnosis arm that also answers a DiagnosisComplete
diagnosis_arm_any_complete(event) ==
    event.event_type \in {"FaultDetected", "DiagnosisComplete"}

\* the arm EventPayload::FaultDetected(payload) of DiagnosisAgent::handle_event
diagnosis_arm(event) == event.event_type = "FaultDetected"

\* DiagnosisAgent::handle_event: diagnose() either yields a hypothesis, and
\* the handler returns DiagnosisComplete under the event's correlation id, or
\* fails (evidence collection, LLM), is logged, and the handler returns None
Diagnosis_handle_event(i) ==
    /\ i \in 1..Len(events)
    /\ diagnosis_arm(events[i])
    /\ <<"Diagnosis", events[i].id>> \notin handled
    /\ handled' = handled \cup {<<"Diagnosis", events[i].id>>}
    /\ \E diagnosed \in BOOLEAN :
          IF diagnosed
          THEN /\ events' = Append(events,
                       AgentEvent(uuid + 1, "DiagnosisComplete",
                                  events[i].correlation_id, None, FALSE))
               /\ cause' = Append(cause, events[i].id)
               /\ uuid' = uuid + 1
               /\ handler_ret' = HandlerRet("Diagnosis", "Some")
          ELSE /\ handler_ret' = HandlerRet("Diagnosis", "None")
               /\ UNCHANGED <<events, cause, uuid>>
    /\ UNCHANGED <<sweeps, qdrant_points, cache_entries, cache_recent,
                   qdrant_calls, knowledge_log>>
    /\ UNCHANGED <<sent, live, next, sub_pos, filter, subscribers, taken, delivered,
                   lost, recv_ret, pub_ret, rejected>>
    /\ UNCHANGED <<now, stateVars, reconcileVars, containmentVars, metaVars, callVars>>

\* the arm EventPayload::DiagnosisComplete(payload) of MetaCognitiveAgent::handle_event
metacognitive_arm(event) == event.event_type = "DiagnosisComplete"

\* MetaCognitiveAgent::handle_event: determine_strategy may fail (logged,
\* None). execute_strategy always returns Ok(ActionResult); verify_healing is
\* called only after a successful execution and its error counts as false
\* (unwrap_or(false)). The handler returns HealingComplete under the event's
\* correlation id.
MetaCognitive_handle_event(i) ==
    /\ i \in 1..Len(events)
    /\ metacognitive_arm(events[i])
    /\ <<"MetaCognitive", events[i].id>> \notin handled
    /\ handled' = handled \cup {<<"MetaCognitive", events[i].id>>}
    /\ \E determined \in BOOLEAN, executed \in BOOLEAN,
          verified \in {"true", "false", "Err"} :
          IF determined
          THEN LET success == IF executed THEN verified = "true" ELSE FALSE
               IN /\ events' = Append(events,
                          AgentEvent(uuid + 1, "HealingComplete",
                                     events[i].correlation_id, None, success))
                  /\ cause' = Append(cause, events[i].id)
                  /\ uuid' = uuid + 1
                  /\ handler_ret' = HandlerRet("MetaCognitive", "Some")
          ELSE /\ handler_ret' = HandlerRet("MetaCognitive", "None")
               /\ UNCHANGED <<events, cause, uuid>>
    /\ UNCHANGED <<sweeps, qdrant_points, cache_entries, cache_recent,
                   qdrant_calls, knowledge_log>>
    /\ UNCHANGED <<sent, live, next, sub_pos, filter, subscribers, taken, delivered,
                   lost, recv_ret, pub_ret, rejected>>
    /\ UNCHANGED <<now, stateVars, reconcileVars, containmentVars, metaVars, callVars>>

\* the outcomes of LocalKnowledgeCache::add_entry: all three commands done, or
\* the first, second or third of them failing
AddEntryOutcomes == {"ok", "set_err", "lpush_err", "ltrim_err"}

\* Redis LTRIM key 0 (max_entries - 1)
ltrim(list, max_entries) ==
    IF Len(list) > max_entries THEN SubSeq(list, 1, max_entries) ELSE list

\* LocalKnowledgeCache::add_entry: SET entry_key(id) (with the default TTL),
\* LPUSH list_key id, LTRIM list_key 0 (max_entries - 1); the first command
\* that fails ends the call with its error, the earlier ones stay done
add_entry(entries, recent, id, added, max_entries) ==
    [entries |-> IF added # "set_err" THEN entries \cup {id} ELSE entries,
     recent  |-> CASE added = "ok" -> ltrim(<<id>> \o recent, max_entries)
                   [] added = "ltrim_err" -> <<id>> \o recent
                   [] OTHER -> recent,
     ok      |-> added = "ok"]

\* the arm EventPayload::HealingComplete(payload) of KnowledgeAgent::handle_event
knowledge_arm(event) == event.event_type = "HealingComplete"

\* KnowledgeEntry (models/knowledge.rs:7-21): id, embedding (present or not), topic
KnowledgeEntry(id, has_embedding, topic) ==
    [id |-> id, has_embedding |-> has_embedding, topic |-> topic]

\* KnowledgeEntry::set_embedding
set_embedding(entry) == [entry EXCEPT !.has_embedding = TRUE]

\* KnowledgeEntry::set_topic
set_topic(entry, topic) == [entry EXCEPT !.topic = topic]

\* KnowledgeAgent::determine_topic, root_cause taken as the set of the
\* keywords that occur in it; the first matching group names the topic
determine_topic(root_cause) ==
    CASE root_cause \cap {"memory", "oom", "leak"} # {} -> "memory_issues"
      [] root_cause \cap {"cpu", "load", "capacity"} # {} -> "resource_saturation"
      [] root_cause \cap {"connection", "network", "timeout"} # {} -> "network_issues"
      [] root_cause \cap {"database", "query", "sql"} # {} -> "database_issues"
      [] root_cause \cap {"dependency", "upstream", "downstream"} # {} -> "dependency_issues"
      [] root_cause \cap {"config", "configuration"} # {} -> "configuration_issues"
      [] OTHER -> "general"

\* an upsert of every entry, embedded or not
needs_upsert_always(entry) == TRUE

\* if entry.embedding.is_some() { self.qdrant.upsert_entry(&entry).await?; }
needs_upsert(entry) == entry.has_embedding

\* one run of record_healing_event: whether generate_embedding returned Ok,
\* the entry as it stood after the embedding and topic steps, and whether the
\* run went on to local_cache.add_entry
KnowledgeRun(embedded, entry, cached) ==
    [embedded |-> embedded, entry |-> entry, cached |-> cached]

\* the correlation id record_healing_event gives KnowledgeUpdated:
\* AgentEvent::knowledge_updated(Uuid::new_v4(), entry) (knowledge.rs:99)
knowledge_correlation_id(incident_id, fresh) == fresh

\* KnowledgeAgent::handle_event -> record_healing_event: a new entry (fresh
\* id); its embedding may fail (logged); when embedded it gets its topic and
\* is upserted (an upsert error ends the call); add_entry (an error ends the
\* call); KnowledgeUpdated is published (an error ends the call). An error of
\* record_healing_event is logged and the handler returns None either way.
Knowledge_handle_event(i) ==
    /\ i \in 1..Len(events)
    /\ knowledge_arm(events[i])
    /\ <<"Knowledge", events[i].id>> \notin handled
    /\ handled' = handled \cup {<<"Knowledge", events[i].id>>}
    /\ handler_ret' = HandlerRet("Knowledge", "None")
    /\ \E embedded \in BOOLEAN, upserted \in BOOLEAN, added \in AddEntryOutcomes :
          LET entry_id == uuid + 1
              created == KnowledgeEntry(entry_id, FALSE, None)
              with_embedding == IF embedded THEN set_embedding(created) ELSE created
              \* handle_event passes root_cause: String::new()
              entry == IF with_embedding.has_embedding
                       THEN set_topic(with_embedding, determine_topic({}))
                       ELSE with_embedding
              upsert_called == needs_upsert(entry)
              reached_cache == ~upsert_called \/ upserted
              cache == add_entry(cache_entries, cache_recent, entry_id, added,
                                 MaxLocalEvents)
              reached_publish == reached_cache /\ cache.ok
              event == AgentEvent(uuid + 3, "KnowledgeUpdated",
                                  knowledge_correlation_id(events[i].correlation_id, uuid + 2),
                                  None, FALSE)
              r == send(events, live, event)
          IN /\ (~upsert_called => ~upserted)
             /\ qdrant_calls' =
                    IF upsert_called THEN qdrant_calls \cup {entry_id} ELSE qdrant_calls
             /\ qdrant_points' =
                    IF upsert_called /\ upserted THEN qdrant_points \cup {entry_id}
                    ELSE qdrant_points
             /\ knowledge_log' =
                    knowledge_log \cup {KnowledgeRun(embedded, entry, reached_cache)}
             /\ cache_entries' = IF reached_cache THEN cache.entries ELSE cache_entries
             /\ cache_recent' = IF reached_cache THEN cache.recent ELSE cache_recent
             /\ IF reached_publish
                THEN /\ events' = r.buffer
                     /\ cause' = IF r.ok THEN Append(cause, events[i].id) ELSE cause
                     /\ uuid' = uuid + 3
                ELSE /\ uuid' = uuid + 1
                     /\ UNCHANGED <<events, cause>>
    /\ UNCHANGED sweeps
    /\ UNCHANGED <<sent, live, next, sub_pos, filter, subscribers, taken, delivered,
                   lost, recv_ret, pub_ret, rejected>>
    /\ UNCHANGED <<now, stateVars, reconcileVars, containmentVars, metaVars, callVars>>

\* the arm EventPayload::HealingComplete(payload) of ContainmentAgent::handle_event
containment_arm(event) == event.event_type = "HealingComplete"

\* ContainmentAgent::handle_event: a log line when payload.success, then None
Containment_handle_event(i) ==
    /\ i \in 1..Len(events)
    /\ containment_arm(events[i])
    /\ <<"Containment", events[i].id>> \notin handled
    /\ handled' = handled \cup {<<"Containment", events[i].id>>}
    /\ handler_ret' = HandlerRet("Containment", "None")
    /\ UNCHANGED <<events, cause, sweeps, qdrant_points, cache_entries, cache_recent,
                   qdrant_calls, knowledge_log>>
    /\ UNCHANGED busVars
    /\ UNCHANGED <<now, stateVars, reconcileVars, containmentVars, metaVars, callVars>>

StartAgent == \E agent \in Receivers : start_agent(agent)

Sweep == \E pod \in Pods : sweep(pod)

DiagnosisHandle == \E i \in 1..Len(events) : Diagnosis_handle_event(i)

MetaCognitiveHandle == \E i \in 1..Len(events) : MetaCognitive_handle_event(i)

KnowledgeHandle == \E i \in 1..Len(events) : Knowledge_handle_event(i)

ContainmentHandle == \E i \in 1..Len(events) : Containment_handle_event(i)

\* ------------------------------------------------------------------------
\* agents/metacognitive/mod.rs: handle_event for DiagnosisComplete, call by call
\* ------------------------------------------------------------------------

\* let namespace = "default"; let pod_name = "unknown";
HandledWorkload == [namespace |-> "default", pod_name |-> "unknown"]

\* one handle_event call: where it stands, the event it was given, the
\* workload it passes to determine_strategy, execute_strategy and
\* verify_healing, the strategy determined, which of the three were called,
\* what execute_strategy and verify_healing returned, and the handler's
\* result with the id of the event it returned
MetaHandle(pc, event, target, strategy_type, determined, executed, exec, verify_called,
           verified, res, response) ==
    [pc |-> pc, event |-> event, target |-> target, strategy_type |-> strategy_type,
     determined |-> determined, executed |-> executed, exec |-> exec,
     verify_called |-> verify_called, verified |-> verified, res |-> res,
     response |-> response]

NoExec == ExecRet(FALSE, ActionResult(None, FALSE, <<"NotCalled", None>>))

NoVerify == [VerifyRet(FALSE, FALSE) EXCEPT !.err = "NotCalled"]

InitHandle ==
    meta_handle = MetaHandle("idle", 0, HandledWorkload, None, FALSE, FALSE, NoExec, FALSE,
                             NoVerify, "NotCalled", 0)

\* what a step of the handler leaves alone besides the events
handleFrame ==
    <<sweeps, qdrant_points, cache_entries, cache_recent, qdrant_calls, knowledge_log,
      sent, live, next, sub_pos, filter, subscribers, taken, delivered, lost, recv_ret,
      pub_ret, rejected, now, stateVars, reconcileVars, containmentVars, metaVars,
      knowledgeVars, strategyVars, faultVars, neighborVars, usageVars, configVars,
      microVars, taskVars>>

\* a success flag that takes the execution's word for it
healing_success_unverified(result, verified) == result.success

\* let success = if result.success { self.verify_healing(..).await.unwrap_or(false) }
\*               else { false };
healing_success(result, verified) ==
    IF result.success
    THEN IF verified.ok THEN verified.value ELSE FALSE
    ELSE FALSE

\* handle_event is given a DiagnosisComplete event and calls
\* determine_strategy(&payload.hypothesis, namespace, pod_name): Ok(strategy),
\* or an error that is logged, after which the handler returns Ok(None)
handle_determine(i, determined, strategy_type) ==
    /\ meta_handle.pc = "idle"
    /\ i \in 1..Len(events)
    /\ metacognitive_arm(events[i])
    /\ <<"MetaCognitive", events[i].id>> \notin handled
    /\ handled' = handled \cup {<<"MetaCognitive", events[i].id>>}
    /\ IF determined
       THEN /\ meta_handle' = MetaHandle("execute", events[i].id, HandledWorkload,
                                         strategy_type, TRUE, FALSE, NoExec, FALSE,
                                         NoVerify, "Running", 0)
            /\ UNCHANGED handler_ret
       ELSE /\ meta_handle' = MetaHandle("idle", events[i].id, HandledWorkload, None,
                                         FALSE, FALSE, NoExec, FALSE, NoVerify, "None", 0)
            /\ handler_ret' = HandlerRet("MetaCognitive", "None")
    /\ UNCHANGED <<events, cause, uuid>>
    /\ UNCHANGED handleFrame

\* let result = self.execute_strategy(&strategy, namespace, pod_name).await?;
\* verify_healing comes next only if result.success
handle_execute(get_res, write_res) ==
    LET exec == execute_strategy(ExecArg(meta_handle.strategy_type, get_res, write_res))
    IN /\ meta_handle.pc = "execute"
       /\ IF ~exec.ok
          THEN /\ meta_handle' = [meta_handle EXCEPT !.pc = "idle", !.executed = TRUE,
                                                     !.exec = exec, !.res = "Err"]
               /\ handler_ret' = HandlerRet("MetaCognitive", "Err")
          ELSE /\ meta_handle' = [meta_handle EXCEPT
                                     !.pc = IF exec.result.success THEN "verify"
                                            ELSE "respond",
                                     !.executed = TRUE, !.exec = exec]
               /\ UNCHANGED handler_ret
       /\ UNCHANGED <<events, cause, uuid, handled>>
       /\ UNCHANGED handleFrame

\* self.verify_healing(namespace, pod_name).await
handle_verify(lookup) ==
    /\ meta_handle.pc = "verify"
    /\ meta_handle' = [meta_handle EXCEPT !.pc = "respond", !.verify_called = TRUE,
                                          !.verified = verify_healing(lookup)]
    /\ UNCHANGED <<events, cause, uuid, handled, handler_ret>>
    /\ UNCHANGED handleFrame

\* AgentEvent::healing_complete(event.correlation_id, strategy, success,
\* result.message) and return Ok(Some(response))
handle_respond ==
    LET success == healing_success(meta_handle.exec.result, meta_handle.verified)
        i == CHOOSE j \in 1..Len(events) : events[j].id = meta_handle.event
        response == AgentEvent(uuid + 1, "HealingComplete", events[i].correlation_id,
                               None, success)
    IN /\ meta_handle.pc = "respond"
       /\ meta_handle' = [meta_handle EXCEPT !.pc = "idle", !.res = "Some",
                                             !.response = response.id]
       /\ handler_ret' = HandlerRet("MetaCognitive", "Some")
       /\ events' = Append(events, response)
       /\ cause' = Append(cause, events[i].id)
       /\ uuid' = uuid + 1
       /\ UNCHANGED handled
       /\ UNCHANGED handleFrame

HandleDetermine ==
    \E i \in 1..Len(events), determined \in BOOLEAN, strategy_type \in StrategyTypes :
        handle_determine(i, determined, strategy_type)

HandleExecute ==
    \E get_res \in ApiResults, write_res \in ApiResults : handle_execute(get_res, write_res)

HandleVerify == \E lookup \in PodLookups : handle_verify(lookup)

\* ------------------------------------------------------------------------
\* clients/redis.rs: LocalKnowledgeCache; agents/knowledge.rs:
\* find_similar_events. Scores and thresholds are counted in hundredths.
\* ------------------------------------------------------------------------

\* KnowledgeEntry.error_type
ErrorTypes == {"HighCpu", "HighMemory"}

\* no entry
NoEntry == 0

\* the spacing of the single-precision values on the scale of hundredths:
\* an f32 holds fewer of the values than the f64 of KnowledgeConfig
F32Step == 4

\* `x as f32`: the nearest single-precision value
as_f32(x) == ((x + F32Step \div 2) \div F32Step) * F32Step

\* ScoredPoint.score of the points the vector store returns (f32)
Scores == {76, 80, 100}

\* KnowledgeConfig.similarity_threshold (f64; 0.8 by default): values whose
\* single-precision neighbour lies above (79) and below (81), and one above 1.0
SimilarityThresholds == {79, 81, 120}

\* what the vector store may return for a search: at most limit points,
\* best score first
SearchReplies ==
    {points \in UNION {[1..n -> Scores] : n \in 0..MaxSearchResults} :
        \A i \in 1..(Len(points) - 1) : points[i] >= points[i + 1]}

InitKnowledge ==
    /\ entry_fields = <<>>
    /\ add_calls = <<>>
    /\ search_arg = [called |-> FALSE, error_type |-> None, similarity_threshold |-> 0,
                     cache_ok |-> FALSE, embedded |-> FALSE, search_ok |-> FALSE,
                     points |-> <<>>]
    /\ search_ret = [ok |-> FALSE, results |-> <<>>, embedding_called |-> FALSE,
                     qdrant_called |-> FALSE]

\* KnowledgeEntry::new (a fresh id) followed by LocalKnowledgeCache::add_entry
AddEntry(error_type, success, added) ==
    /\ Len(add_calls) < MaxAddCalls
    /\ LET id == uuid + 1
           cache == add_entry(cache_entries, cache_recent, id, added, MaxLocalEvents)
       IN /\ uuid' = id
          /\ entry_fields' = entry_fields @@ (id :> [error_type |-> error_type,
                                                      success |-> success])
          /\ cache_entries' = cache.entries
          /\ cache_recent' = cache.recent
          /\ add_calls' = Append(add_calls, [id |-> id, ok |-> cache.ok])
    /\ UNCHANGED <<search_arg, search_ret, strategyVars, faultVars, neighborVars, usageVars, restVars>>
    /\ UNCHANGED <<events, cause, handled, handler_ret, sweeps, qdrant_points,
                   qdrant_calls, knowledge_log>>
    /\ UNCHANGED <<sent, live, next, sub_pos, filter, subscribers, taken, delivered,
                   lost, recv_ret, pub_ret, rejected>>
    /\ UNCHANGED <<now, stateVars, reconcileVars, containmentVars, metaVars>>

\* ------------------------------------------------------------------------
\* clients/redis.rs: add_entry command by command, called from several tasks
\* ------------------------------------------------------------------------

\* the tasks that call add_entry on the one LocalKnowledgeCache (it is held
\* in an Arc and add_entry takes &self)
Tasks == {"t1", "t2"}

InitTasks ==
    /\ add_pc = [t \in Tasks |-> "idle"]
    /\ add_id = [t \in Tasks |-> 0]

\* what an add_entry step leaves alone
addEntryFrame ==
    <<events, cause, handled, handler_ret, sweeps, qdrant_points, qdrant_calls,
      knowledge_log, sent, live, next, sub_pos, filter, subscribers, taken, delivered,
      lost, recv_ret, pub_ret, rejected, now, stateVars, reconcileVars,
      containmentVars, metaVars, entry_fields, search_arg, search_ret, strategyVars,
      faultVars, neighborVars, usageVars, configVars, microVars, handleVars>>

\* add_entry returns: Ok(()) after the trim, or the error of the command
\* that failed (each command is followed by ?)
add_entry_return(t, ok) ==
    /\ add_calls' = Append(add_calls, [id |-> add_id[t], ok |-> ok])
    /\ add_pc' = [add_pc EXCEPT ![t] = "idle"]

\* a task calls add_entry(entry) with a fresh entry: let id = entry.id.to_string()
add_entry_begin(t) ==
    /\ add_pc[t] = "idle"
    /\ Len(add_calls) + Cardinality({u \in Tasks : add_pc[u] # "idle"}) < MaxAddCalls
    /\ uuid' = uuid + 1
    /\ add_id' = [add_id EXCEPT ![t] = uuid + 1]
    /\ add_pc' = [add_pc EXCEPT ![t] = "set"]
    /\ UNCHANGED <<cache_entries, cache_recent, add_calls>>
    /\ UNCHANGED addEntryFrame

\* self.redis.set(&self.entry_key(&id), entry).await?
add_entry_set(t, ok) ==
    /\ add_pc[t] = "set"
    /\ IF ok
       THEN /\ cache_entries' = cache_entries \cup {add_id[t]}
            /\ add_pc' = [add_pc EXCEPT ![t] = "lpush"]
            /\ UNCHANGED add_calls
       ELSE /\ add_entry_return(t, FALSE)
            /\ UNCHANGED cache_entries
    /\ UNCHANGED <<cache_recent, add_id, uuid>>
    /\ UNCHANGED addEntryFrame

\* self.redis.lpush(&self.list_key(), &id).await?
add_entry_lpush(t, ok) ==
    /\ add_pc[t] = "lpush"
    /\ IF ok
       THEN /\ cache_recent' = <<add_id[t]>> \o cache_recent
            /\ add_pc' = [add_pc EXCEPT ![t] = "ltrim"]
            /\ UNCHANGED add_calls
       ELSE /\ add_entry_return(t, FALSE)
            /\ UNCHANGED cache_recent
    /\ UNCHANGED <<cache_entries, add_id, uuid>>
    /\ UNCHANGED addEntryFrame

\* self.redis.ltrim(&self.list_key(), 0, (self.max_entries - 1) as isize).await?; Ok(())
add_entry_ltrim(t, ok) ==
    /\ add_pc[t] = "ltrim"
    /\ cache_recent' = IF ok THEN ltrim(cache_recent, MaxLocalEvents) ELSE cache_recent
    /\ add_entry_return(t, ok)
    /\ UNCHANGED <<cache_entries, add_id, uuid>>
    /\ UNCHANGED addEntryFrame

AddEntryBegin == \E t \in Tasks : add_entry_begin(t)

AddEntrySet == \E t \in Tasks, ok \in BOOLEAN : add_entry_set(t, ok)

AddEntryLpush == \E t \in Tasks, ok \in BOOLEAN : add_entry_lpush(t, ok)

AddEntryLtrim == \E t \in Tasks, ok \in BOOLEAN : add_entry_ltrim(t, ok)

\* LocalKnowledgeCache::get_recent_entries: LRANGE list_key 0 (limit - 1),
\* then GET entry_key(id) for each id, the ids without an entry left out
get_recent_entries(entries, recent, limit) ==
    LET ids == SubSeq(recent, 1, IF Len(recent) < limit THEN Len(recent) ELSE limit)
    IN SelectSeq(ids, LAMBDA id : id \in entries)

\* LocalKnowledgeCache::find_similar_in_cache: the first recent entry of
\* that error type whose outcome was a success
find_similar_in_cache(entries, recent, fields, error_type, max_entries) ==
    LET hits == SelectSeq(get_recent_entries(entries, recent, max_entries),
                          LAMBDA id : /\ fields[id].error_type = error_type
                                      /\ fields[id].success)
    IN IF hits = <<>> THEN NoEntry ELSE hits[1]

\* SimilaritySearchResult { entry, similarity_score }; entry is the cached
\* entry's id, or NoEntry for an entry built from a point of the vector store
SimilaritySearchResult(entry, similarity_score) ==
    [entry |-> entry, similarity_score |-> similarity_score]

\* no filter: every point the vector store returned is kept
passes_threshold_any(score, similarity_threshold) == TRUE

\* if point.score >= self.config.similarity_threshold as f32
passes_threshold(score, similarity_threshold) == score >= as_f32(similarity_threshold)

\* the arguments of a find_similar_events call, the agent's threshold and
\* what Redis, the embedding model and the vector store answered
SearchArg(error_type, similarity_threshold, cache_ok, embedded, search_ok, points) ==
    [called |-> TRUE, error_type |-> error_type,
     similarity_threshold |-> similarity_threshold, cache_ok |-> cache_ok,
     embedded |-> embedded, search_ok |-> search_ok, points |-> points]

\* KnowledgeAgent::find_similar_events
find_similar_events(entries, recent, fields, arg) ==
    LET cached == find_similar_in_cache(entries, recent, fields, arg.error_type,
                                        MaxLocalEvents)
        kept == SelectSeq(arg.points,
                          LAMBDA score : passes_threshold(score, arg.similarity_threshold))
    IN CASE ~arg.cache_ok ->
              [ok |-> FALSE, results |-> <<>>, embedding_called |-> FALSE,
               qdrant_called |-> FALSE]
         [] arg.cache_ok /\ cached # NoEntry ->
              [ok |-> TRUE, results |-> <<SimilaritySearchResult(cached, 100)>>,
               embedding_called |-> FALSE, qdrant_called |-> FALSE]
         [] arg.cache_ok /\ cached = NoEntry /\ ~arg.embedded ->
              [ok |-> FALSE, results |-> <<>>, embedding_called |-> TRUE,
               qdrant_called |-> FALSE]
         [] arg.cache_ok /\ cached = NoEntry /\ arg.embedded /\ ~arg.search_ok ->
              [ok |-> FALSE, results |-> <<>>, embedding_called |-> TRUE,
               qdrant_called |-> TRUE]
         [] OTHER ->
              [ok |-> TRUE,
               results |-> [i \in 1..Len(kept) |->
                               SimilaritySearchResult(NoEntry, kept[i])],
               embedding_called |-> TRUE, qdrant_called |-> TRUE]

FindSimilarEvents(arg) ==
    /\ search_arg' = arg
    /\ search_ret' = find_similar_events(cache_entries, cache_recent, entry_fields, arg)
    /\ UNCHANGED <<entry_fields, add_calls, strategyVars, faultVars, neighborVars, usageVars, restVars>>
    /\ UNCHANGED <<now, stateVars, busVars, agentVars, reconcileVars, containmentVars,
                   metaVars>>

CallAddEntry ==
    \E error_type \in ErrorTypes, success \in BOOLEAN, added \in AddEntryOutcomes :
        AddEntry(error_type, success, added)

\* the entries recorded before a search: add_entry calls that returned Ok
RecordEntry ==
    /\ ~search_arg.called
    /\ \E error_type \in ErrorTypes, success \in BOOLEAN :
          AddEntry(error_type, success, "ok")

\* what the collaborators of one call answer: Redis fails; or the embedding
\* model fails; or the vector store fails; or it returns its points
CollaboratorReplies ==
    {[cache_ok |-> FALSE, embedded |-> FALSE, search_ok |-> FALSE, points |-> <<>>],
     [cache_ok |-> TRUE, embedded |-> FALSE, search_ok |-> FALSE, points |-> <<>>],
     [cache_ok |-> TRUE, embedded |-> TRUE, search_ok |-> FALSE, points |-> <<>>]}
    \cup {[cache_ok |-> TRUE, embedded |-> TRUE, search_ok |-> TRUE, points |-> points] :
             points \in SearchReplies}

\* the one search of a run, after the entries were recorded
CallFindSimilarEvents ==
    /\ ~search_arg.called
    /\ \E error_type \in ErrorTypes, similarity_threshold \in SimilarityThresholds,
          reply \in CollaboratorReplies :
          FindSimilarEvents(SearchArg(error_type, similarity_threshold, reply.cache_ok,
                                     reply.embedded, reply.search_ok, reply.points))

\* ------------------------------------------------------------------------
\* agents/metacognitive/mod.rs: determine_strategy. Confidences and the
\* threshold are counted in hundredths.
\* ------------------------------------------------------------------------

\* the keyword groups generate_candidate_strategies looks for in the root cause
RootCauseGroups == {"memory", "cpu", "connection", "dependency"}

\* MetaCognitiveAgent::generate_candidate_strategies: two candidates for each
\* keyword group the root cause mentions, in the order of the groups, and
\* PodRestart alone when it mentions none
generate_candidate_strategies(root_cause) ==
    LET strategies ==
            (IF "memory" \in root_cause THEN <<"PodRestart", "VerticalScale">> ELSE <<>>)
         \o (IF "cpu" \in root_cause THEN <<"HorizontalScale", "VerticalScale">> ELSE <<>>)
         \o (IF "connection" \in root_cause THEN <<"ConfigUpdate", "PodRestart">> ELSE <<>>)
         \o (IF "dependency" \in root_cause
             THEN <<"DependencyRestart", "NetworkIsolation">> ELSE <<>>)
    IN IF strategies = <<>> THEN <<"PodRestart">> ELSE strategies

\* strategies.iter().take(self.config.max_micro_agents as usize)
take(list, n) == SubSeq(list, 1, IF Len(list) < n THEN Len(list) ELSE n)

\* MicroAgentResult.confidence as the evaluation leaves it
Confidences == {65, 82, 91}

\* MetaCognitiveConfig.decision_threshold (0.7 by default)
DecisionThresholds == {70, 82}

\* what MicroAgent::evaluate returned: Err, or Ok with a confidence
Evaluations == [ok : {TRUE}, confidence : Confidences] \cup {[ok |-> FALSE, confidence |-> 0]}

\* Result<MicroAgentResult> of the micro-agent evaluating strategy_type
MicroAgentResult(strategy_type, evaluation) ==
    [ok |-> evaluation.ok, strategy_type |-> strategy_type,
     confidence |-> evaluation.confidence]

\* no result kept so far (best_result = None)
NoResult == [ok |-> FALSE, strategy_type |-> None, confidence |-> 0]

\* a later result replaces the kept one on a tie as well
replaces_on_tie(r, current) == r.confidence >= current.confidence

\* Some(current) if r.confidence > current.confidence
replaces(r, current) == r.confidence > current.confidence

\* the loop over the results (mod.rs:85-103): best_result after the first n
RECURSIVE best_result(_, _, _)
best_result(results, decision_threshold, n) ==
    IF n = 0 THEN NoResult
    ELSE LET current == best_result(results, decision_threshold, n - 1)
             r == results[n]
         IN IF r.ok /\ r.confidence >= decision_threshold
            THEN (IF ~current.ok THEN r
                  ELSE IF replaces(r, current) THEN r
                  ELSE current)
            ELSE current

\* RollbackActionType of create_rollback_plan
create_rollback_plan(strategy_type) ==
    CASE strategy_type \in {"HorizontalScale", "VerticalScale"} -> "RestoreReplicas"
      [] strategy_type = "ConfigUpdate" -> "RestoreConfig"
      [] strategy_type = "NetworkIsolation" -> "DeleteNetworkPolicy"
      [] OTHER -> "RestartPod"

\* a determine_strategy call: the root cause of the hypothesis, the agent's
\* threshold, the candidates its micro-agents evaluate and their results
StrategyArg(root_cause, decision_threshold, strategies, results) ==
    [called |-> TRUE, root_cause |-> root_cause,
     decision_threshold |-> decision_threshold, strategies |-> strategies,
     results |-> results]

\* what determine_strategy returned, if it has: Ok(SolutionStrategy) or the error
StrategyRet(done, ok, err, strategy_type, confidence, action_type, rollback) ==
    [done |-> done, ok |-> ok, err |-> err, strategy_type |-> strategy_type,
     confidence |-> confidence, action_type |-> action_type, rollback |-> rollback]

\* MetaCognitiveAgent::determine_strategy from the results on (mod.rs:83-123)
determine_strategy(arg) ==
    LET selected == best_result(arg.results, arg.decision_threshold, Len(arg.results))
    IN IF ~selected.ok
       THEN StrategyRet(TRUE, FALSE, "HealingError: No strategy met confidence threshold",
                        None, 0, None, None)
       ELSE StrategyRet(TRUE, TRUE, None, selected.strategy_type, selected.confidence,
                        to_action_type(selected.strategy_type),
                        create_rollback_plan(selected.strategy_type))

InitStrategy ==
    /\ strategy_arg = [called |-> FALSE, root_cause |-> {}, decision_threshold |-> 0,
                       strategies |-> <<>>, results |-> <<>>]
    /\ strategy_ret = StrategyRet(FALSE, FALSE, None, None, 0, None, None)

\* determine_strategy is called: a micro-agent for each of the first
\* max_micro_agents candidates (mod.rs:63-80)
spawn_micro_agents(root_cause, decision_threshold) ==
    /\ strategy_arg' =
           StrategyArg(root_cause, decision_threshold,
                       take(generate_candidate_strategies(root_cause), MaxMicroAgents),
                       <<>>)
    /\ strategy_ret' = StrategyRet(FALSE, FALSE, None, None, 0, None, None)
    /\ UNCHANGED <<knowledgeVars, faultVars, neighborVars, usageVars, restVars>>
    /\ UNCHANGED <<now, stateVars, busVars, agentVars, reconcileVars, containmentVars,
                   metaVars>>

\* join_all(futures): the next micro-agent's evaluation is in; the results
\* stand in the order of the candidates
evaluate(evaluation) ==
    /\ strategy_arg.called
    /\ ~strategy_ret.done
    /\ Len(strategy_arg.results) < Len(strategy_arg.strategies)
    /\ strategy_arg' =
           [strategy_arg EXCEPT !.results =
               Append(@, MicroAgentResult(strategy_arg.strategies[Len(@) + 1],
                                          evaluation))]
    /\ UNCHANGED strategy_ret
    /\ UNCHANGED <<knowledgeVars, faultVars, neighborVars, usageVars, restVars>>
    /\ UNCHANGED <<now, stateVars, busVars, agentVars, reconcileVars, containmentVars,
                   metaVars>>

\* every result is in: the selection, and the call returns
select_strategy ==
    /\ strategy_arg.called
    /\ ~strategy_ret.done
    /\ Len(strategy_arg.results) = Len(strategy_arg.strategies)
    /\ strategy_ret' = determine_strategy(strategy_arg)
    /\ UNCHANGED strategy_arg
    /\ UNCHANGED <<knowledgeVars, faultVars, neighborVars, usageVars, restVars>>
    /\ UNCHANGED <<now, stateVars, busVars, agentVars, reconcileVars, containmentVars,
                   metaVars>>

DetermineStrategy ==
    \E root_cause \in SUBSET RootCauseGroups, decision_threshold \in DecisionThresholds :
        spawn_micro_agents(root_cause, decision_threshold)

MicroAgentEvaluate == \E evaluation \in Evaluations : evaluate(evaluation)

\* ------------------------------------------------------------------------
\* agents/metacognitive/micro_agent.rs: MicroAgent::evaluate. Confidences
\* are counted in hundredths.
\* ------------------------------------------------------------------------

\* root_cause_lower.contains(word), the root cause kept as the set of the
\* keywords it contains
contains(root_cause, word) == word \in root_cause

\* MicroAgent::calculate_initial_confidence
calculate_initial_confidence(strategy_type, root_cause) ==
    CASE strategy_type = "PodRestart" ->
             IF contains(root_cause, "memory") \/ contains(root_cause, "leak") THEN 70
             ELSE IF contains(root_cause, "deadlock") \/ contains(root_cause, "hang") THEN 65
             ELSE 50
      [] strategy_type = "HorizontalScale" ->
             IF contains(root_cause, "load") \/ contains(root_cause, "capacity") THEN 70
             ELSE IF contains(root_cause, "cpu") THEN 60
             ELSE 40
      [] strategy_type = "VerticalScale" ->
             IF contains(root_cause, "oom") \/ contains(root_cause, "memory") THEN 65
             ELSE IF contains(root_cause, "cpu") THEN 55
             ELSE 40
      [] strategy_type = "ConfigUpdate" ->
             IF contains(root_cause, "connection") \/ contains(root_cause, "pool") THEN 60
             ELSE IF contains(root_cause, "timeout") THEN 55
             ELSE 35
      [] strategy_type = "DependencyRestart" ->
             IF contains(root_cause, "dependency") \/ contains(root_cause, "upstream") THEN 50
             ELSE 30
      [] strategy_type = "NetworkIsolation" ->
             IF contains(root_cause, "network") \/ contains(root_cause, "cascade") THEN 60
             ELSE 35
      [] strategy_type = "Composite" -> 50

\* the root causes of the micro-agents in the model
MicroRootCauses == {{}, {"memory"}, {"cpu"}}

\* Result<StrategyEvaluation> of LlmClient::evaluate_strategy
LlmReply(ok, success_probability, prerequisites_met) ==
    [ok |-> ok, success_probability |-> success_probability,
     prerequisites_met |-> prerequisites_met]

\* the replies of the model: an error, or a probability below 0.7, at 0.7 or
\* at 0.8, with the prerequisites met or not
LlmReplies ==
    {LlmReply(FALSE, 0, FALSE)}
    \cup {LlmReply(TRUE, p, m) : p \in {65, 70, 80}, m \in BOOLEAN}

MicroArg(strategy_type, root_cause, max_depth) ==
    [strategy_type |-> strategy_type, root_cause |-> root_cause, max_depth |-> max_depth]

\* Result<MicroAgentResult>: confidence and reasoning_depth
MicroRet(done, ok, confidence, reasoning_depth) ==
    [done |-> done, ok |-> ok, confidence |-> confidence,
     reasoning_depth |-> reasoning_depth]

InitMicro ==
    /\ micro_pc = "idle"
    /\ micro_arg = MicroArg(None, {}, 0)
    /\ micro_confidence = 0
    /\ micro_depth = 0
    /\ micro_replies = <<>>
    /\ micro_ret = MicroRet(FALSE, FALSE, 0, 0)

\* a loop test that leaves the depth out
continues_whatever_depth(confidence, depth, max_depth) == confidence < 80

\* while confidence < 0.8 && depth < self.max_depth
continues(confidence, depth, max_depth) == confidence < 80 /\ depth < max_depth

\* a break that does not look at the prerequisites
breaks_without_prerequisites(evaluation, confidence) == confidence >= 70

\* if evaluation.prerequisites_met && confidence >= 0.7 { break; }
breaks(evaluation, confidence) == evaluation.prerequisites_met /\ confidence >= 70

\* MicroAgent::new(strategy_type, hypothesis, llm, max_depth) and the head of
\* evaluate: confidence = calculate_initial_confidence(), depth = 0
evaluate_begin(strategy_type, root_cause, max_depth) ==
    /\ micro_pc = "idle"
    /\ micro_arg' = MicroArg(strategy_type, root_cause, max_depth)
    /\ micro_confidence' = calculate_initial_confidence(strategy_type, root_cause)
    /\ micro_depth' = 0
    /\ micro_pc' = "while"
    /\ UNCHANGED <<micro_replies, micro_ret>>
    /\ UNCHANGED <<knowledgeVars, strategyVars, faultVars, neighborVars, usageVars, configVars,
                   taskVars, handleVars>>
    /\ UNCHANGED <<now, stateVars, busVars, agentVars, reconcileVars, containmentVars,
                   metaVars>>

\* one pass of the loop body: evaluate_strategy answers; an error ends
\* evaluate with it (`?`), else confidence and depth are updated and the
\* break test is made
evaluate_pass(reply) ==
    /\ micro_pc = "while"
    /\ continues(micro_confidence, micro_depth, micro_arg.max_depth)
    /\ micro_replies' = Append(micro_replies, reply)
    /\ IF ~reply.ok
       THEN /\ micro_ret' = MicroRet(TRUE, FALSE, 0, 0)
            /\ micro_pc' = "done"
            /\ UNCHANGED <<micro_confidence, micro_depth>>
       ELSE /\ micro_confidence' = reply.success_probability
            /\ micro_depth' = micro_depth + 1
            /\ micro_pc' = IF breaks(reply, reply.success_probability)
                           THEN "break" ELSE "while"
            /\ UNCHANGED micro_ret
    /\ UNCHANGED micro_arg
    /\ UNCHANGED <<knowledgeVars, strategyVars, faultVars, neighborVars, usageVars, configVars,
                   taskVars, handleVars>>
    /\ UNCHANGED <<now, stateVars, busVars, agentVars, reconcileVars, containmentVars,
                   metaVars>>

\* the loop is left, by its test or by the break: Ok(MicroAgentResult)
evaluate_return ==
    /\ \/ micro_pc = "break"
       \/ /\ micro_pc = "while"
          /\ ~continues(micro_confidence, micro_depth, micro_arg.max_depth)
    /\ micro_ret' = MicroRet(TRUE, TRUE, micro_confidence, micro_depth)
    /\ micro_pc' = "done"
    /\ UNCHANGED <<micro_arg, micro_confidence, micro_depth, micro_replies>>
    /\ UNCHANGED <<knowledgeVars, strategyVars, faultVars, neighborVars, usageVars, configVars,
                   taskVars, handleVars>>
    /\ UNCHANGED <<now, stateVars, busVars, agentVars, reconcileVars, containmentVars,
                   metaVars>>

EvaluateBegin ==
    /\ micro_pc = "idle"
    /\ \E strategy_type \in StrategyTypes, root_cause \in MicroRootCauses,
          max_depth \in 0..MaxReasoningDepth :
          evaluate_begin(strategy_type, root_cause, max_depth)

EvaluatePass ==
    /\ micro_pc = "while"
    /\ \E reply \in LlmReplies : evaluate_pass(reply)

\* ------------------------------------------------------------------------
\* models/fault.rs: Fault::new, calculate_severity. Usages and rates are
\* counted in hundredths.
\* ------------------------------------------------------------------------

\* TriggerReason (crd/healing_event.rs:33-43)
TriggerReason ==
    {"HighCpu", "HighMemory", "HighLatency", "HighErrorRate", "CrashLoop",
     "OomKilled", "NetworkError", "DependencyFailure", "Unknown"}

\* Option<f64>: Some(value)
Some(value) == [some |-> TRUE, value |-> value]

\* Option<f64>: None
Absent == [some |-> FALSE, value |-> 0]

\* Option::unwrap_or
unwrap_or(option, default) == IF option.some THEN option.value ELSE default

\* TriggerMetrics: the fields calculate_severity reads
TriggerMetrics(cpu_usage, memory_usage, error_rate) ==
    [cpu_usage |-> cpu_usage, memory_usage |-> memory_usage, error_rate |-> error_rate]

\* a test that takes only an OOM kill for critical
is_critical_reason_oom_only(r) == r = "OomKilled"

\* matches!(r, TriggerReason::OomKilled | TriggerReason::CrashLoop)
is_critical_reason(r) == r \in {"OomKilled", "CrashLoop"}

\* Fault::calculate_severity
calculate_severity(reasons, metrics) ==
    LET has_critical == \E i \in 1..Len(reasons) : is_critical_reason(reasons[i])
        error_rate == unwrap_or(metrics.error_rate, 0)
        cpu == unwrap_or(metrics.cpu_usage, 0)
        memory == unwrap_or(metrics.memory_usage, 0)
    IN IF has_critical THEN "Critical"
       ELSE IF error_rate > 50 THEN "Critical"
       ELSE IF error_rate > 20 THEN "High"
       ELSE IF cpu > 95 \/ memory > 95 THEN "High"
       ELSE "Medium"

\* the reason lists a Fault is built from
ReasonLists == UNION {[1..n -> TriggerReason] : n \in 0..MaxReasons}

\* the metrics a Fault is built from: each absent, or on either side of the
\* values calculate_severity compares it with
SeverityMetrics ==
    {TriggerMetrics(cpu_usage, memory_usage, error_rate) :
        cpu_usage \in {Absent, Some(95), Some(96)},
        memory_usage \in {Absent, Some(95), Some(96)},
        error_rate \in {Absent, Some(20), Some(21), Some(50), Some(51)}}

InitFault ==
    /\ severity_arg = [called |-> FALSE, reasons |-> <<>>,
                       metrics |-> TriggerMetrics(Absent, Absent, Absent)]
    /\ severity_ret = None

\* Fault::new(pod_name, namespace, reasons, metrics): the severity it computes
new_fault(reasons, metrics) ==
    /\ ~severity_arg.called
    /\ severity_arg' = [called |-> TRUE, reasons |-> reasons, metrics |-> metrics]
    /\ severity_ret' = calculate_severity(reasons, metrics)
    /\ UNCHANGED <<knowledgeVars, strategyVars, neighborVars, usageVars, restVars>>
    /\ UNCHANGED <<now, stateVars, busVars, agentVars, reconcileVars, containmentVars,
                   metaVars>>

NewFault ==
    /\ ~severity_arg.called
    /\ \E reasons \in ReasonLists, metrics \in SeverityMetrics : new_fault(reasons, metrics)

\* ------------------------------------------------------------------------
\* agents/containment.rs: negotiate_with_neighbors. Usages, capacities and
\* the threshold are counted in hundredths; a load fraction is a quotient
\* num / den of such counts.
\* ------------------------------------------------------------------------

\* the pods of the namespace that Prometheus has samples for
NeighborPods == {"p1", "p2", "p3"}

\* PodMetrics.cpu_usage (cores, it may pass 1.0) and PodMetrics.memory_usage
Usages == [cpu_usage : {0, 25, 30, 31, 120}, memory_usage : {0, 28}]

\* ContainmentConfig.neighbor_capacity_threshold, in [0, 1] (0.7 by default)
NeighborCapacityThresholds == {0, 70, 100}

\* f64::max
max(a, b) == IF a >= b THEN a ELSE b

\* a / b as an f64 quotient; 0.0 / 0.0 is NaN
Quotient(num, den) == [num |-> num, den |-> den]

\* the quotient is NaN
is_nan(q) == q.den = 0 /\ q.num = 0

\* the load fraction as it was computed, with no cap
min_half_missing(q) == q

\* load_fraction.min(0.5): 0.5 when the quotient is larger or is NaN
min_half(q) ==
    IF is_nan(q) \/ 2 * q.num >= q.den THEN Quotient(1, 2) ELSE q

\* AcceptingNeighbor { pod_name, available_capacity, accepted_load_fraction }
AcceptingNeighbor(pod_name, available_capacity, accepted_load_fraction) ==
    [pod_name |-> pod_name, available_capacity |-> available_capacity,
     accepted_load_fraction |-> accepted_load_fraction]

\* RejectedNeighbor { pod_name, reason }, the reason quoting the capacity
RejectedNeighbor(pod_name, available_capacity) ==
    [pod_name |-> pod_name, reason |-> available_capacity]

\* 1.0 - pod_metrics.cpu_usage.max(pod_metrics.memory_usage)
available_capacity(pod_metrics) ==
    100 - max(pod_metrics.cpu_usage, pod_metrics.memory_usage)

\* a negotiate_with_neighbors call: the faulty pod, the agent's threshold and
\* what get_all_pod_metrics returned (the pods it has metrics for; their
\* order is that of a HashMap's values)
NegotiateArg(faulty_pod, neighbor_capacity_threshold, metrics_ok, all_metrics) ==
    [called |-> TRUE, faulty_pod |-> faulty_pod,
     neighbor_capacity_threshold |-> neighbor_capacity_threshold,
     metrics_ok |-> metrics_ok, all_metrics |-> all_metrics]

\* ContainmentAgent::negotiate_with_neighbors
negotiate_with_neighbors(arg) ==
    LET T == arg.neighbor_capacity_threshold
        neighbors == DOMAIN arg.all_metrics \ {arg.faulty_pod}
        accepts(pod) == available_capacity(arg.all_metrics[pod]) >= T
    IN IF ~arg.metrics_ok
       THEN [ok |-> FALSE, accepting_pods |-> {}, rejected_pods |-> {}]
       ELSE [ok |-> TRUE,
             accepting_pods |->
                 {AcceptingNeighbor(pod, available_capacity(arg.all_metrics[pod]),
                      min_half(Quotient(available_capacity(arg.all_metrics[pod]) - T,
                                        100 - T))) :
                     pod \in {q \in neighbors : accepts(q)}},
             rejected_pods |->
                 {RejectedNeighbor(pod, available_capacity(arg.all_metrics[pod])) :
                     pod \in {q \in neighbors : ~accepts(q)}}]

InitNeighbors ==
    /\ negotiate_arg = [called |-> FALSE, faulty_pod |-> None,
                        neighbor_capacity_threshold |-> 0, metrics_ok |-> FALSE,
                        all_metrics |-> <<>>]
    /\ negotiate_ret = [ok |-> FALSE, accepting_pods |-> {}, rejected_pods |-> {}]

NegotiateWithNeighbors ==
    /\ ~negotiate_arg.called
    /\ \E faulty_pod \in NeighborPods, T \in NeighborCapacityThresholds,
          metrics_ok \in BOOLEAN, pods \in SUBSET NeighborPods :
          \E all_metrics \in [pods -> Usages] :
             LET arg == NegotiateArg(faulty_pod, T, metrics_ok, all_metrics)
             IN /\ (~metrics_ok => pods = {})
                /\ negotiate_arg' = arg
                /\ negotiate_ret' = negotiate_with_neighbors(arg)
    /\ UNCHANGED <<knowledgeVars, strategyVars, faultVars, usageVars, restVars>>
    /\ UNCHANGED <<now, stateVars, busVars, agentVars, reconcileVars, containmentVars,
                   metaVars>>

\* ------------------------------------------------------------------------
\* models/knowledge.rs: KnowledgeEntry::new, record_usage. success_rate is
\* an exact quotient num / den.
\* ------------------------------------------------------------------------

\* if success { 1.0 } else { 0.0 }
indicator(success) == IF success THEN 1 ELSE 0

\* the sum with the earlier rate counted once, whatever the usage count
total_successes_unweighted(success_rate, usage_count, success) ==
    Quotient(success_rate.num + indicator(success) * success_rate.den,
             success_rate.den)

\* (self.success_rate * (self.usage_count - 1) as f64) + if success { 1.0 } else { 0.0 }
total_successes(success_rate, usage_count, success) ==
    Quotient(success_rate.num * (usage_count - 1) + indicator(success) * success_rate.den,
             success_rate.den)

\* no entry yet
NoKnowledgeEntry ==
    [created |-> FALSE, success |-> FALSE, usage_count |-> 0,
     success_rate |-> Quotient(0, 1)]

InitUsage ==
    /\ knowledge_entry = NoKnowledgeEntry
    /\ usage_log = <<>>

\* KnowledgeEntry::new: usage_count 1, success_rate 1.0 or 0.0 by outcome.success
new_knowledge_entry(success) ==
    /\ ~knowledge_entry.created
    /\ knowledge_entry' =
           [created |-> TRUE, success |-> success, usage_count |-> 1,
            success_rate |-> Quotient(indicator(success), 1)]
    /\ UNCHANGED usage_log
    /\ UNCHANGED <<knowledgeVars, strategyVars, faultVars, neighborVars, restVars>>
    /\ UNCHANGED <<now, stateVars, busVars, agentVars, reconcileVars, containmentVars,
                   metaVars>>

\* KnowledgeEntry::record_usage
record_usage(success) ==
    /\ knowledge_entry.created
    /\ Len(usage_log) < MaxUsages
    /\ LET usage_count == knowledge_entry.usage_count + 1
           total == total_successes(knowledge_entry.success_rate, usage_count, success)
       IN knowledge_entry' =
              [knowledge_entry EXCEPT
                  !.usage_count = usage_count,
                  !.success_rate = Quotient(total.num, total.den * usage_count)]
    /\ usage_log' = Append(usage_log, success)
    /\ UNCHANGED <<knowledgeVars, strategyVars, faultVars, neighborVars, restVars>>
    /\ UNCHANGED <<now, stateVars, busVars, agentVars, reconcileVars, containmentVars,
                   metaVars>>

NewKnowledgeEntry == \E success \in BOOLEAN : new_knowledge_entry(success)

RecordUsage == \E success \in BOOLEAN : record_usage(success)

\* ------------------------------------------------------------------------
\* agents/containment.rs: check_metrics and the sweep of one namespace
\* (metric values in hundredths, latencies in milliseconds)
\* ------------------------------------------------------------------------

\* Thresholds with its defaults: cpu 0.9, memory 0.85, latency_ms 500,
\* error_rate 0.05
Thresholds == [cpu |-> 90, memory |-> 85, latency_ms |-> 500, error_rate |-> 5]

\* PodMetrics (clients/prometheus.rs:217-224)
PodMetrics(pod_name, namespace, cpu_usage, memory_usage, error_rate, latency) ==
    [pod_name |-> pod_name, namespace |-> namespace, cpu_usage |-> cpu_usage,
     memory_usage |-> memory_usage, error_rate |-> error_rate, latency_ms |-> latency]

\* the values a pod's metrics take in the model: at and above the cpu, error
\* rate and latency thresholds, below and above the memory threshold
MetricSamples ==
    [cpu_usage : {90, 95}, memory_usage : {30, 96}, error_rate : {5, 30},
     latency_ms : {500, 600}]

\* what get_all_pod_metrics(namespace) returns when it succeeds: the values of
\* a map keyed by pod name, so one PodMetrics for each of some pods, in any order
MetricsReplies(namespace) ==
    LET Of(pod, m) == PodMetrics(pod, namespace, m.cpu_usage, m.memory_usage,
                                 m.error_rate, m.latency_ms)
    IN {<<>>}
       \cup {<<Of(pod, m)>> : pod \in Pods, m \in MetricSamples}
       \cup {<<Of(pods[1], m1), Of(pods[2], m2)>> :
                pods \in {<<"p1", "p2">>, <<"p2", "p1">>},
                m1 \in MetricSamples, m2 \in MetricSamples}

\* a comparison that also counts a value at the threshold
exceeds_or_equal(value, threshold) == value >= threshold

\* pod_metrics.<field> > self.thresholds.<field>
exceeds(value, threshold) == value > threshold

\* the reasons check_metrics pushes for one pod, in the order of its four tests
reasons_of(pod_metrics, thresholds) ==
    (IF exceeds(pod_metrics.cpu_usage, thresholds.cpu) THEN <<"HighCpu">> ELSE <<>>)
    \o (IF exceeds(pod_metrics.memory_usage, thresholds.memory)
        THEN <<"HighMemory">> ELSE <<>>)
    \o (IF exceeds(pod_metrics.error_rate, thresholds.error_rate)
        THEN <<"HighErrorRate">> ELSE <<>>)
    \o (IF exceeds(pod_metrics.latency_ms, thresholds.latency_ms)
        THEN <<"HighLatency">> ELSE <<>>)

\* Fault::new(pod_name, namespace, reasons, metrics) (models/fault.rs:51-67)
Fault_new(pod_name, namespace, reasons, metrics) ==
    [pod_name |-> pod_name, namespace |-> namespace, reasons |-> reasons,
     metrics |-> metrics, severity |-> calculate_severity(reasons, metrics)]

\* FaultCluster (models/fault.rs:7-11)
FaultCluster(namespace, faults) == [namespace |-> namespace, faults |-> faults]

\* the loop of check_metrics over the metrics: a Fault is added for a pod
\* whose reasons are not empty
RECURSIVE add_faults(_, _, _, _)
add_faults(faults, namespace, metrics, thresholds) ==
    IF metrics = <<>>
    THEN faults
    ELSE LET pod_metrics == Head(metrics)
             reasons == reasons_of(pod_metrics, thresholds)
             fault == Fault_new(pod_metrics.pod_name, namespace, reasons,
                                TriggerMetrics(Some(pod_metrics.cpu_usage),
                                               Some(pod_metrics.memory_usage),
                                               Some(pod_metrics.error_rate)))
         IN add_faults(IF reasons # <<>> THEN Append(faults, fault) ELSE faults,
                       namespace, Tail(metrics), thresholds)

\* ContainmentAgent::check_metrics(namespace), given what get_all_pod_metrics
\* returned
check_metrics(namespace, reply) ==
    IF ~reply.ok
    THEN [ok |-> FALSE, fault_cluster |-> FaultCluster(namespace, <<>>)]
    ELSE [ok |-> TRUE,
          fault_cluster |-> FaultCluster(namespace,
                                add_faults(<<>>, namespace, reply.metrics, Thresholds))]

\* Result<Vec<PodMetrics>>
MetricsReply(ok, metrics) == [ok |-> ok, metrics |-> metrics]

SweepArg(called, namespace, reply) ==
    [called |-> called, namespace |-> namespace, reply |-> reply]

InitSweep ==
    /\ sweep_pc = "idle"
    /\ sweep_arg = SweepArg(FALSE, None, MetricsReply(FALSE, <<>>))
    /\ sweep_cluster = FaultCluster(None, <<>>)
    /\ sweep_i = 0
    /\ sweep_published = <<>>
    /\ sweep_isolations = <<>>
    /\ sweep_ns = 0
    /\ sweep_log = <<>>

\* an isolate_pod error that ends the sweep of the namespace
after_isolate_propagates(result, passed, faults) ==
    IF ~result.ok THEN "done"
    ELSE IF passed = Len(faults) THEN "publish" ELSE "isolate"

\* where the sweep goes after isolate_pod returned result for the fault
\* number passed: `if let Err(e) = .. { error!(..) }`, then the next fault,
\* and after the last one the publish
after_isolate(result, passed, faults) ==
    IF passed = Len(faults) THEN "publish" ELSE "isolate"

\* run_check_loop, the body of `for namespace in &namespaces` up to the match
\* on check_metrics' result: an Err is logged, an empty cluster is passed over
sweep_check(namespace, reply) ==
    /\ sweep_pc = "idle"
    /\ LET r == check_metrics(namespace, reply)
       IN /\ sweep_arg' = SweepArg(TRUE, namespace, reply)
          /\ sweep_cluster' = r.fault_cluster
          /\ sweep_pc' = IF r.ok /\ r.fault_cluster.faults # <<>>
                         THEN "isolate" ELSE "done"
    /\ UNCHANGED <<sweep_i, sweep_published, sweep_isolations, sweep_ns, sweep_log>>
    /\ UNCHANGED <<now, stateVars, busVars, agentVars, reconcileVars, isolationVars,
                   loopVars, metaVars, callVars>>

\* for fault in &fault_cluster.faults: isolate_pod(fault), an error is logged
sweep_isolate ==
    /\ sweep_pc = "isolate"
    /\ isolate_pod_call(sweep_cluster.faults[sweep_i + 1])
    /\ sweep_i' = sweep_i + 1
    /\ sweep_isolations' = Append(sweep_isolations, isolation_ret'.ok)
    /\ sweep_pc' = after_isolate(isolation_ret', sweep_i + 1, sweep_cluster.faults)
    /\ UNCHANGED <<sweep_arg, sweep_cluster, sweep_published, sweep_ns, sweep_log, loopVars>>

\* the fresh correlation id, the FaultDetected event of the cluster and its
\* publish, whose error is logged
sweep_publish ==
    /\ sweep_pc = "publish"
    /\ fault_detected(sweep_cluster.faults[1].pod_name)
    /\ sweep_published' = Append(sweep_published,
                                 [correlation_id |-> uuid + 1, ok |-> live # {}])
    /\ sweep_pc' = "done"
    /\ UNCHANGED <<sweep_arg, sweep_cluster, sweep_i, sweep_isolations, sweep_ns, sweep_log,
                   loopVars>>

\* a sweep of a namespace with any reply of the metrics collaborator
SweepCheck ==
    /\ sweep_pc = "idle"
    /\ \E namespace \in Namespaces :
          \E reply \in {MetricsReply(FALSE, <<>>)}
                       \cup {MetricsReply(TRUE, metrics) :
                                 metrics \in MetricsReplies(namespace)} :
              sweep_check(namespace, reply)

\* the Diagnosis agent, which subscribes to FaultDetected, is started
StartDiagnosis == start_agent("Diagnosis")

\* the namespaces run_check_loop is called with
LoopNamespaces == <<"ns1", "ns2">>

\* what one pass of the `for` did for its namespace
SweepRecord(namespace, fetched, faults, isolations, published) ==
    [namespace |-> namespace, fetched |-> fetched, faults |-> faults,
     isolations |-> isolations, published |-> published]

\* the end of the `for` body for one namespace: on to the next one
sweep_next ==
    /\ sweep_pc = "done"
    /\ sweep_log' = Append(sweep_log,
                           SweepRecord(sweep_arg.namespace, sweep_arg.reply.ok,
                                       Len(sweep_cluster.faults), sweep_isolations,
                                       sweep_published))
    /\ sweep_ns' = sweep_ns + 1
    /\ sweep_pc' = "idle"
    /\ sweep_arg' = SweepArg(FALSE, None, MetricsReply(FALSE, <<>>))
    /\ sweep_cluster' = FaultCluster(None, <<>>)
    /\ sweep_i' = 0
    /\ sweep_published' = <<>>
    /\ sweep_isolations' = <<>>
    /\ UNCHANGED <<now, stateVars, busVars, agentVars, reconcileVars, isolationVars,
                   loopVars, metaVars, callVars>>

\* the `for` is through the namespaces: tokio::time::sleep(interval).await
sweep_sleep ==
    /\ sweep_pc = "idle"
    /\ sweep_ns = Len(LoopNamespaces)
    /\ sweep_pc' = "sleep"
    /\ UNCHANGED <<sweep_arg, sweep_cluster, sweep_i, sweep_published, sweep_isolations,
                   sweep_ns, sweep_log>>
    /\ UNCHANGED <<now, stateVars, busVars, agentVars, reconcileVars, isolationVars,
                   loopVars, metaVars, callVars>>

\* the metrics of an iteration's namespaces: up to two pods, each with its
\* cpu usage at or above the threshold
LoopMetricsReplies(namespace) ==
    LET Of(pod, cpu_usage) == PodMetrics(pod, namespace, cpu_usage, 30, 0, 10)
    IN {<<>>}
       \cup {<<Of(pod, cpu_usage)>> : pod \in Pods, cpu_usage \in {90, 95}}
       \cup {<<Of("p1", c1), Of("p2", c2)>> : c1 \in {90, 95}, c2 \in {90, 95}}

\* check_metrics for the next namespace of the iteration
LoopSweepCheck ==
    /\ sweep_pc = "idle"
    /\ sweep_ns < Len(LoopNamespaces)
    /\ \E reply \in {MetricsReply(FALSE, <<>>)}
                     \cup {MetricsReply(TRUE, metrics) :
                               metrics \in LoopMetricsReplies(LoopNamespaces[sweep_ns + 1])} :
          sweep_check(LoopNamespaces[sweep_ns + 1], reply)

\* ------------------------------------------------------------------------
\* agents/containment.rs: run_check_loop, start, stop
\* ------------------------------------------------------------------------

\* no cluster at hand
NoFault == Fault(None, None, None)

\* Agent::start for ContainmentAgent: *running = true
start ==
    /\ running' = TRUE
    /\ UNCHANGED <<loop_pc, loop_ns, loop_fault, loop_rounds, stopped>>
    /\ UNCHANGED <<now, stateVars, busVars, agentVars, reconcileVars, isolationVars,
                   sweepVars, metaVars, callVars>>

\* Agent::stop for ContainmentAgent: *running = false
stop ==
    /\ running' = FALSE
    /\ stopped' = (loop_pc \notin {"idle", "done"})
    /\ UNCHANGED <<loop_pc, loop_ns, loop_fault, loop_rounds>>
    /\ UNCHANGED <<now, stateVars, busVars, agentVars, reconcileVars, isolationVars,
                   sweepVars, metaVars, callVars>>

\* run_check_loop(namespaces) is called and comes to the head of its loop
run_check_loop ==
    /\ loop_pc = "idle"
    /\ loop_pc' = "check"
    /\ UNCHANGED <<running, loop_ns, loop_fault, loop_rounds, stopped>>
    /\ UNCHANGED <<now, stateVars, busVars, agentVars, reconcileVars, isolationVars,
                   sweepVars, metaVars, callVars>>

\* the head of the loop: read the flag; break when it is false, else start
\* a sweep over the namespaces
loop_check ==
    /\ loop_pc = "check"
    /\ stopped' = FALSE
    /\ IF ~running
       THEN /\ loop_pc' = "done"
            /\ UNCHANGED <<loop_ns, loop_rounds>>
       ELSE /\ loop_rounds < MaxLoopRounds
            /\ loop_rounds' = loop_rounds + 1
            /\ loop_ns' = 0
            /\ loop_pc' = "metrics"
    /\ UNCHANGED <<running, loop_fault>>
    /\ UNCHANGED <<now, stateVars, busVars, agentVars, reconcileVars, isolationVars,
                   sweepVars, metaVars, callVars>>

\* for namespace in &namespaces: check_metrics(namespace) fails or returns an
\* empty cluster (on to the next namespace), or returns a cluster with a fault
\* of that namespace; after the last namespace the loop sleeps
loop_metrics ==
    /\ loop_pc = "metrics"
    /\ IF loop_ns = Len(LoopNamespaces)
       THEN /\ loop_pc' = "sleep"
            /\ UNCHANGED <<loop_ns, loop_fault>>
       ELSE \/ /\ loop_ns' = loop_ns + 1
               /\ UNCHANGED <<loop_pc, loop_fault>>
            \/ \E fault \in Faults :
                  /\ fault.namespace = LoopNamespaces[loop_ns + 1]
                  /\ loop_fault' = fault
                  /\ loop_pc' = "isolate"
                  /\ UNCHANGED loop_ns
    /\ UNCHANGED <<running, loop_rounds, stopped>>
    /\ UNCHANGED <<now, stateVars, busVars, agentVars, reconcileVars, isolationVars,
                   sweepVars, metaVars, callVars>>

\* if let Err(e) = self.isolate_pod(fault).await { error!(..) }
loop_isolate ==
    /\ loop_pc = "isolate"
    /\ isolate_pod_call(loop_fault)
    /\ loop_pc' = "publish"
    /\ UNCHANGED <<running, loop_ns, loop_fault, loop_rounds, stopped, sweepVars>>

\* the FaultDetected event of the cluster is published, and the sweep goes on
\* to the next namespace
loop_publish ==
    /\ loop_pc = "publish"
    /\ fault_detected(loop_fault.pod_name)
    /\ loop_pc' = "metrics"
    /\ loop_ns' = loop_ns + 1
    /\ loop_fault' = NoFault
    /\ UNCHANGED <<running, loop_rounds, stopped, sweepVars>>

\* tokio::time::sleep(interval).await, then the head of the loop again
loop_sleep ==
    /\ loop_pc = "sleep"
    /\ loop_pc' = "check"
    /\ UNCHANGED <<running, loop_ns, loop_fault, loop_rounds, stopped>>
    /\ UNCHANGED <<now, stateVars, busVars, agentVars, reconcileVars, isolationVars,
                   sweepVars, metaVars, callVars>>

\* ------------------------------------------------------------------------
\* controller/reconciler.rs: reconcile_event
\* ------------------------------------------------------------------------

\* Option<String>::None of start_time and end_time
NoTime == -1

\* HealingEventStatus (crd/healing_event.rs:78-104): phase, start_time, end_time
HealingEventStatus(present, p, start_time, end_time) ==
    [present |-> present, phase |-> p, start_time |-> start_time, end_time |-> end_time]

\* event.status = None; unwrap_or_default() reads it as Pending with no times
NoStatus == HealingEventStatus(FALSE, "Pending", NoTime, NoTime)

NoPatch == [sent |-> FALSE, phase |-> None, start_time |-> NoTime, end_time |-> NoTime]

StatusPatch(st) ==
    [sent |-> TRUE, phase |-> st.phase, start_time |-> st.start_time,
     end_time |-> st.end_time]

\* a HealingEvent as created: no status yet, and the controller has seen it
InitReconcile ==
    /\ status = NoStatus
    /\ observed = NoStatus
    /\ last_patch = NoPatch
    /\ action = "NotCalled"

\* a next_phase whose Verifying arm holds the phase instead of completing
next_phase_stays_verifying(current_phase) ==
    CASE current_phase = "Pending" -> "Containing"
      [] current_phase = "Containing" -> "Diagnosing"
      [] current_phase = "Diagnosing" -> "Healing"
      [] current_phase = "Healing" -> "Verifying"
      [] current_phase = "Verifying" -> "Verifying"
      [] OTHER -> None

\* a next_phase that leaves Healing for Completed at once
next_phase_skips_verifying(current_phase) ==
    CASE current_phase = "Pending" -> "Containing"
      [] current_phase = "Containing" -> "Diagnosing"
      [] current_phase = "Diagnosing" -> "Healing"
      [] current_phase = "Healing" -> "Completed"
      [] current_phase = "Verifying" -> "Completed"
      [] OTHER -> None

\* let next_phase = match current_phase { .. } (None: the arm that returns
\* Action::await_change())
next_phase(current_phase) ==
    CASE current_phase = "Pending" -> "Containing"
      [] current_phase = "Containing" -> "Diagnosing"
      [] current_phase = "Diagnosing" -> "Healing"
      [] current_phase = "Healing" -> "Verifying"
      [] current_phase = "Verifying" -> "Completed"
      [] OTHER -> None

\* the watch stream brings the controller's copy of the event up to date
watch_event ==
    /\ observed # status
    /\ observed' = status
    /\ UNCHANGED <<status, last_patch, action>>
    /\ UNCHANGED <<now, stateVars, busVars, agentVars, containmentVars, metaVars, callVars>>

\* reconcile_event(event, ctx): event is the controller's copy. A terminal
\* phase returns await_change. Otherwise the copy's status (or the default)
\* gets the next phase, start_time if it has none, end_time if the next phase
\* is terminal, and is sent as a merge patch of the status subresource; the
\* struct serialises every field, so an applied patch replaces phase,
\* start_time and end_time. The patch's result is dropped (let _ =), and the
\* call returns requeue(5 s).
reconcile_event ==
    LET current_phase == IF observed.present THEN observed.phase ELSE "Pending"
        target == next_phase(current_phase)
    IN IF current_phase \in {"Completed", "Failed"} \/ target = None
       THEN /\ action' = "await_change"
            /\ last_patch' = NoPatch
            /\ UNCHANGED <<status, observed>>
            /\ UNCHANGED <<now, stateVars, busVars, agentVars, containmentVars, metaVars, callVars>>
       ELSE LET start_time == IF observed.start_time = NoTime THEN now
                              ELSE observed.start_time
                end_time == IF target \in {"Completed", "Failed"} THEN now
                            ELSE observed.end_time
                patched == HealingEventStatus(TRUE, target, start_time, end_time)
            IN /\ last_patch' = StatusPatch(patched)
               /\ \E patch_ok \in BOOLEAN :
                      status' = IF patch_ok THEN patched ELSE status
               /\ action' = "requeue"
               /\ UNCHANGED observed
               /\ UNCHANGED <<now, stateVars, busVars, agentVars, containmentVars, metaVars, callVars>>

\* the change a terminal event waits for comes from outside the reconciler:
\* a failed healing is recorded as phase Failed with end_time set
external_failure ==
    /\ status.phase \notin {"Completed", "Failed"}
    /\ status' = HealingEventStatus(TRUE, "Failed", status.start_time, now)
    /\ UNCHANGED <<observed, last_patch, action>>
    /\ UNCHANGED <<now, stateVars, busVars, agentVars, containmentVars, metaVars, callVars>>

\* ------------------------------------------------------------------------
\* Specifications: every one starts from the state after construction and
\* runs the operations of one component
\* ------------------------------------------------------------------------

Init ==
    /\ now = 0
    /\ InitState
    /\ InitBus
    /\ InitAgents
    /\ InitReconcile
    /\ InitContainment
    /\ InitMetaCognitive
    /\ InitKnowledge
    /\ InitStrategy
    /\ InitFault
    /\ InitNeighbors
    /\ InitUsage /\ InitSweep /\ InitMicro /\ InitTasks /\ InitHandle

NextState ==
    \/ StateTick
    \/ CallTransitionTo

SpecState == Init /\ [][NextState]_vars

NextBus ==
    \/ Subscribe
    \/ DropReceiver
    \/ Publish
    \/ Recv

SpecBus == Init /\ [][NextBus]_vars

NextPipeline ==
    \/ StartAgent
    \/ Sweep
    \/ DiagnosisHandle
    \/ MetaCognitiveHandle
    \/ KnowledgeHandle
    \/ ContainmentHandle

SpecPipeline == Init /\ [][NextPipeline]_vars

NextReconcile ==
    \/ StateTick
    \/ watch_event
    \/ reconcile_event
    \/ external_failure

SpecReconcile == Init /\ [][NextReconcile]_vars

\* an incident running through the agents while the reconciler drives the
\* incident's HealingEvent
NextHealing ==
    \/ StateTick
    \/ StartAgent
    \/ Sweep
    \/ DiagnosisHandle
    \/ MetaCognitiveHandle
    \/ watch_event
    \/ reconcile_event

SpecHealing == Init /\ [][NextHealing]_vars

\* callers of the containment agent's isolation operations
NextIsolation ==
    \/ StateTick
    \/ CallIsolatePod
    \/ CallRemoveIsolation

SpecIsolation == Init /\ [][NextIsolation]_vars

\* the containment agent's loop beside callers of start() and stop()
NextLoop ==
    \/ start
    \/ stop
    \/ run_check_loop
    \/ loop_check
    \/ loop_metrics
    \/ loop_isolate
    \/ loop_publish
    \/ loop_sleep

SpecLoop == Init /\ [][NextLoop]_vars

\* callers of the meta-cognitive agent's cluster operations
NextMetaCognitive ==
    \/ ExecuteStrategy
    \/ VerifyHealing

SpecMetaCognitive == Init /\ [][NextMetaCognitive]_vars

\* isolate_pod under each configured isolation strategy
NextConfigured ==
    \/ NewContainmentAgent
    \/ IsolateSeverityFault

SpecConfigured == Init /\ [][NextConfigured]_vars

\* one sweep of a namespace by run_check_loop
NextSweep ==
    \/ StartDiagnosis
    \/ SweepCheck
    \/ sweep_isolate
    \/ sweep_publish

SpecSweep == Init /\ [][NextSweep]_vars

\* the steps of run_check_loop inside one iteration
LoopStep ==
    \/ LoopSweepCheck
    \/ sweep_isolate
    \/ sweep_publish
    \/ sweep_next
    \/ sweep_sleep

\* one iteration of run_check_loop over its namespaces
NextIteration ==
    \/ StartDiagnosis
    \/ LoopSweepCheck
    \/ sweep_isolate
    \/ sweep_publish
    \/ sweep_next
    \/ sweep_sleep

SpecIteration == Init /\ [][NextIteration]_vars

\* one micro-agent's evaluate
NextEvaluate ==
    \/ EvaluateBegin
    \/ EvaluatePass
    \/ evaluate_return

SpecEvaluate == Init /\ [][NextEvaluate]_vars

\* tasks calling add_entry on the one recency cache, command by command
NextCacheTasks ==
    \/ AddEntryBegin
    \/ AddEntrySet
    \/ AddEntryLpush
    \/ AddEntryLtrim

SpecCacheTasks == Init /\ [][NextCacheTasks]_vars

\* an incident up to the meta-cognitive agent's handling of its diagnosis
NextHandle ==
    \/ StartDiagnosis
    \/ Sweep
    \/ DiagnosisHandle
    \/ HandleDetermine
    \/ HandleExecute
    \/ HandleVerify
    \/ handle_respond

SpecHandle == Init /\ [][NextHandle]_vars

\* the containment agent's loop isolating and reporting a fault, and the
\* agents handling the incident's events up to HealingComplete
NextLift ==
    \/ StartAgent
    \/ start
    \/ run_check_loop
    \/ loop_check
    \/ loop_metrics
    \/ loop_isolate
    \/ loop_publish
    \/ loop_sleep
    \/ DiagnosisHandle
    \/ MetaCognitiveHandle
    \/ ContainmentHandle

SpecLift == Init /\ [][NextLift]_vars

\* callers of the recency cache
NextCache == CallAddEntry

SpecCache == Init /\ [][NextCache]_vars

\* callers of the knowledge search, over a cache that holds entries
NextSearch ==
    \/ RecordEntry
    \/ CallFindSimilarEvents

SpecSearch == Init /\ [][NextSearch]_vars

\* callers of determine_strategy
NextStrategy ==
    \/ DetermineStrategy
    \/ MicroAgentEvaluate
    \/ select_strategy

SpecStrategy == Init /\ [][NextStrategy]_vars

\* a Fault is built
NextFault == NewFault

SpecFault == Init /\ [][NextFault]_vars

\* a neighbor negotiation
NextNeighbors == NegotiateWithNeighbors

SpecNeighbors == Init /\ [][NextNeighbors]_vars

\* the life of one KnowledgeEntry
NextUsage ==
    \/ NewKnowledgeEntry
    \/ RecordUsage

SpecUsage == Init /\ [][NextUsage]_vars

\* ------------------------------------------------------------------------
\* Claims about HealingState (checked under SpecState)
\* ------------------------------------------------------------------------

\* the moves the documentation permits
PermittedMoves ==
    {<<"Pending", "Containing">>, <<"Containing", "Diagnosing">>,
     <<"Diagnosing", "Healing">>, <<"Healing", "Verifying">>,
     <<"Verifying", "Completed">>, <<"Verifying", "Failed">>}

\* C1: transition_to(target) returns Ok exactly when (phase, target) is a
\* permitted move or target is Failed; every other call returns the
\* invalid-state-transition error naming the phase and the target.
C1_TransitionTable ==
    [][\A t \in HealingPhase, r \in Reasons :
          transition_to(t, r) =>
              /\ ret'.ok <=> (<<phase, t>> \in PermittedMoves \/ t = "Failed")
              /\ ~ret'.ok => ret' = InvalidStateTransition(phase, t)]_vars

\* a refused call after some accepted ones
C1_Witness ==
    /\ ret.err = "InvalidStateTransition"
    /\ Len(transitions) >= 3

\* C2 as stated: from Pending, transition_to(Healing) fails, and from
\* Completed, transition_to(t) fails for every target phase t.
C2_Original ==
    [][\A t \in HealingPhase, r \in Reasons :
          transition_to(t, r) =>
              /\ (phase = "Pending" /\ t = "Healing") => ~ret'.ok
              /\ phase = "Completed" => ~ret'.ok]_vars

\* C2 amended: from Pending, transition_to(Healing) fails with the
\* invalid-state-transition error, and from Completed, transition_to(t) fails
\* with it for every target t other than Failed; Completed -> Failed succeeds.
C2_ForbiddenMoves ==
    [][\A t \in HealingPhase, r \in Reasons :
          transition_to(t, r) =>
              /\ (phase = "Pending" /\ t = "Healing") =>
                     ret' = InvalidStateTransition("Pending", "Healing")
              /\ (phase = "Completed" /\ t # "Failed") =>
                     ret' = InvalidStateTransition("Completed", t)
              /\ (phase = "Completed" /\ t = "Failed") => ret'.ok]_vars

\* a call refused in phase Completed
C2_Witness ==
    /\ ret.err = "InvalidStateTransition"
    /\ ret.from = "Completed"
    /\ phase = "Completed"

\* the log shows a move into Verifying
PassedVerifying == \E i \in 1..Len(transitions) : transitions[i].to = "Verifying"

\* C3: a state in phase Completed entered it from Verifying (its last log
\* record is Verifying -> Completed), and a terminal state whose log never
\* passed through Verifying is Failed.
C3_CompletedOnlyFromVerifying ==
    /\ phase = "Completed" =>
           /\ transitions[Len(transitions)].from = "Verifying"
           /\ transitions[Len(transitions)].to = "Completed"
    /\ (is_terminal(phase) /\ ~PassedVerifying) => phase = "Failed"

\* Completed reached along the whole pipeline
C3_Witness ==
    /\ phase = "Completed"
    /\ Len(transitions) = 6

\* C4: a transition_to call that returns an error leaves phase, updated_at,
\* created_at and the log as they were; a call that returns Ok appends exactly
\* one record (old phase -> target, stamped now) and sets the phase to target.
C4_ErrorLeavesStateUnchanged ==
    [][\A t \in HealingPhase, r \in Reasons :
          transition_to(t, r) =>
              IF ret'.ok
              THEN /\ Len(transitions') = Len(transitions) + 1
                   /\ SubSeq(transitions', 1, Len(transitions)) = transitions
                   /\ transitions'[Len(transitions')].from = phase
                   /\ transitions'[Len(transitions')].to = t
                   /\ phase' = t
              ELSE UNCHANGED <<phase, created_at, updated_at, transitions>>]_vars

\* a call refused after the clock has moved past the last update
C4_Witness ==
    /\ ret.err = "InvalidStateTransition"
    /\ updated_at < now
    /\ Len(transitions) >= 2

\* ------------------------------------------------------------------------
\* Claims about the event bus (checked under SpecBus)
\* ------------------------------------------------------------------------

\* the index in the channel's history of the event with this id (0: not there)
PositionOf(id) ==
    IF \E i \in 1..Len(sent) : sent[i].id = id
    THEN CHOOSE i \in 1..Len(sent) : sent[i].id = id
    ELSE 0

\* C5: publish returns Ok exactly when a receiver is live at the call, and the
\* event is then queued, unread and retained, for every live receiver; with no
\* live receiver it returns EventBusError, the channel is left as it was, and
\* no receiver is ever handed an event whose publish failed.
C5_PublishReachesLiveReceivers ==
    /\ [][\A k \in BusEventTypes :
            publish(k) =>
                /\ pub_ret'.ok <=> live # {}
                /\ pub_ret'.ok =>
                       /\ sent' = Append(sent, BusEvent(pub_ret'.id, k))
                       /\ \A r \in live :
                              /\ next[r] <= Len(sent)
                              /\ recv_ref(sent', Len(sent)).res = "Ok"
                              /\ recv_ref(sent', Len(sent)).n = Len(sent')
                /\ ~pub_ret'.ok =>
                       /\ pub_ret'.err = "EventBusError"
                       /\ sent' = sent]_vars
    /\ [](\A r \in Receivers : \A i \in 1..Len(delivered[r]) :
              /\ delivered[r][i].id \notin rejected
              /\ PositionOf(delivered[r][i].id) > sub_pos[r])

\* a publish failed after every receiver was dropped, and an earlier one was delivered
C5_Witness ==
    /\ pub_ret.err = "EventBusError"
    /\ live = {}
    /\ \E r \in Receivers : Len(delivered[r]) > 0

\* C6: publish is always possible and succeeds whenever a receiver is live,
\* however far behind the receivers are. A receiver more than the ring behind
\* gets Lagged(n) from its next recv, n being the number of its oldest unread
\* events that were overwritten, and then reads on from the oldest retained
\* event; every event sent since it subscribed is read, lost or still queued.
C6_LaggingReceiverLosesOldest ==
    /\ [][\A k \in BusEventTypes : publish(k) => (live # {} => pub_ret'.ok)]_vars
    /\ [](uuid < MaxPublish => \A k \in BusEventTypes : ENABLED publish(k))
    /\ [][\A r \in Receivers :
            (recv(r) /\ Len(sent) - next[r] > BufLen) =>
                /\ recv_ret'[r] = [res |-> "Lagged", n |-> Len(sent) - next[r] - BufLen]
                /\ delivered'[r] = delivered[r]
                /\ next'[r] = Len(sent) - BufLen
                /\ recv_ref(sent', next'[r]).res = "Ok"
                /\ recv_ref(sent', next'[r]).n = Len(sent) - BufLen + 1]_vars
    /\ [][\A r \in Receivers :
            (recv(r) /\ Len(sent) - next[r] <= BufLen) => recv_ret'[r].res = "Ok"]_vars
    /\ [](\A r \in Receivers :
              sub_pos[r] # -1 => next[r] - sub_pos[r] = taken[r] + lost[r])

\* a receiver was told of lost events and has read an event since
C6_Witness ==
    \E r \in Receivers :
        /\ lost[r] > 0
        /\ recv_ret[r].res = "Ok"
        /\ recv_ret[r].n = Len(sent)

\* C7: the events handed to a receiver appear in the order in which they were
\* published, each at most once (for any two events, so in particular for two
\* events of the same producer).
C7_PerReceiverPublishOrder ==
    \A r \in Receivers : \A i, j \in 1..Len(delivered[r]) :
        i < j => /\ PositionOf(delivered[r][i].id) < PositionOf(delivered[r][j].id)
                 /\ delivered[r][i].id # delivered[r][j].id

\* a receiver was handed two events of one producer and one of another
C7_Witness ==
    \E r \in Receivers :
        /\ Len(delivered[r]) >= 3
        /\ delivered[r][1].source_agent = delivered[r][3].source_agent
        /\ delivered[r][1].source_agent # delivered[r][2].source_agent

\* ------------------------------------------------------------------------
\* Claims about the incident pipeline (checked under SpecPipeline)
\* ------------------------------------------------------------------------

\* the index in events of the event with this id
IndexOf(id) == CHOOSE i \in 1..Len(events) : events[i].id = id

\* the event that started the incident events[i] belongs to: the end of the
\* chain of handled events that led to it
RECURSIVE IncidentRoot(_)
IncidentRoot(i) == IF cause[i] = 0 THEN i ELSE IncidentRoot(IndexOf(cause[i]))

\* C8 as stated: every DiagnosisComplete, HealingComplete and KnowledgeUpdated
\* event carries the correlation id of the FaultDetected event that started
\* its incident.
C8_SameCorrelationId ==
    \A i \in 1..Len(events) :
        events[i].event_type \in {"DiagnosisComplete", "HealingComplete", "KnowledgeUpdated"} =>
            /\ events[IncidentRoot(i)].event_type = "FaultDetected"
            /\ events[i].correlation_id = events[IncidentRoot(i)].correlation_id

\* C9: an incident's events are produced in the order FaultDetected,
\* DiagnosisComplete, HealingComplete, KnowledgeUpdated: a FaultDetected comes
\* from a sweep, and each later-stage event was produced by handling an
\* event of the stage before it that already existed (for DiagnosisComplete
\* and HealingComplete: one with the same correlation id).
C9_PipelineOrder ==
    \A i \in 1..Len(events) :
        LET e == events[i]
            FromStage(kind, same_id) ==
                \E j \in 1..(i - 1) :
                    /\ events[j].id = cause[i]
                    /\ events[j].event_type = kind
                    /\ same_id => events[j].correlation_id = e.correlation_id
        IN CASE e.event_type = "FaultDetected" -> cause[i] = 0
             [] e.event_type = "DiagnosisComplete" -> FromStage("FaultDetected", TRUE)
             [] e.event_type = "HealingComplete" -> FromStage("DiagnosisComplete", TRUE)
             [] e.event_type = "KnowledgeUpdated" -> FromStage("HealingComplete", FALSE)
             [] OTHER -> FALSE

\* an incident that ran through all four stages
C9_Witness ==
    /\ Len(events) = 4
    /\ events[4].event_type = "KnowledgeUpdated"
    /\ events[1].event_type = "FaultDetected"

\* ------------------------------------------------------------------------
\* Claims about the reconciler (checked under SpecReconcile)
\* ------------------------------------------------------------------------

\* the pipeline order of the phases
PhaseOrder == <<"Pending", "Containing", "Diagnosing", "Healing", "Verifying", "Completed">>

\* C10: a reconcile_event call on an event whose status phase (Pending when
\* the status is missing) is not terminal sends a status patch whose phase is
\* the phase one step further in Pending, Containing, Diagnosing, Healing,
\* Verifying, Completed, the stored phase changes to that phase or not at all,
\* and the call asks for a requeue; a call on a Completed or Failed event
\* sends no patch, changes nothing and returns await_change.
C10_OnePhasePerReconcile ==
    [][reconcile_event =>
          LET p == IF observed.present THEN observed.phase ELSE "Pending"
          IN IF p \in {"Completed", "Failed"}
             THEN /\ ~last_patch'.sent
                  /\ status' = status
                  /\ action' = "await_change"
             ELSE /\ last_patch'.sent
                  /\ \E k \in 1..5 : PhaseOrder[k] = p /\ last_patch'.phase = PhaseOrder[k + 1]
                  /\ status' # status => status'.phase = last_patch'.phase
                  /\ action' = "requeue"]_vars

\* an event driven to Completed, on which the next call awaited a change
C10_Witness ==
    /\ status.phase = "Completed"
    /\ observed.phase = "Completed"
    /\ status.start_time < status.end_time
    /\ action = "await_change"

\* ------------------------------------------------------------------------
\* Claims about the HealingEvent and the incident's outcome (checked under
\* SpecHealing)
\* ------------------------------------------------------------------------

\* the HealingComplete events of the incident with this outcome
HealingOutcomes(success) ==
    {i \in 1..Len(events) :
        events[i].event_type = "HealingComplete" /\ events[i].success = success}

\* C11 as stated: the HealingEvent leaves Verifying for Completed only when
\* the incident's HealingComplete reports success (the strategy was executed
\* and verify_healing returned true), and leaves it for Failed with end_time
\* set when the HealingComplete reports success = false.
C11_VerificationDecidesOutcome ==
    [][(status.phase = "Verifying" /\ status'.phase # "Verifying") =>
          /\ status'.phase = "Completed" => HealingOutcomes(TRUE) # {}
          /\ HealingOutcomes(FALSE) # {} =>
                 (status'.phase = "Failed" /\ status'.end_time # NoTime)]_vars

\* a terminal status phase
TerminalPhase(p) == p \in {"Completed", "Failed"}

\* C12 as stated: for a HealingEvent whose status only reconcile_event
\* writes, starting from no status: a status that exists has start_time, a
\* start_time once stamped is never changed, and end_time is present exactly
\* when the phase is Completed or Failed.
C12_StartAndEndTimes ==
    /\ [][status.start_time # NoTime => status'.start_time = status.start_time]_vars
    /\ [](status.present => status.start_time # NoTime)
    /\ []((status.end_time # NoTime) <=> TerminalPhase(status.phase))

\* ------------------------------------------------------------------------
\* Claims about isolation (checked under SpecIsolation)
\* ------------------------------------------------------------------------

\* the isolation policies of the pod of that name in the namespace
PoliciesOf(policies, namespace, pod_name) ==
    {q \in policies : q.namespace = namespace /\ q.pod_selector = pod_name}

\* C13: when isolate_pod returns Ok for a pod and namespace for which an
\* earlier isolate_pod call returned Ok, the cluster holds exactly one
\* isolation policy for that pod in that namespace, and the active-isolations
\* map holds the pod's entry (a map holds one entry per key), the rule of
\* this call.
C13_IdempotentIsolation ==
    [][\A fault \in Faults :
          (/\ IsolatePod(fault)
           /\ isolation_ret'.ok
           /\ <<fault.namespace, fault.pod_name>> \in isolated) =>
              /\ Cardinality(PoliciesOf(network_policies', fault.namespace,
                                        fault.pod_name)) = 1
              /\ active_isolations'[fault.pod_name] # NoRule
              /\ active_isolations'[fault.pod_name].namespace = fault.namespace
              /\ Cardinality({pod_name \in Pods :
                     /\ active_isolations'[pod_name] # NoRule
                     /\ active_isolations'[pod_name].pod_name = fault.pod_name}) = 1]_vars

\* a second successful isolate_pod for a pod whose policy was still there
C13_Witness ==
    /\ isolation_ret.op = "isolate_pod"
    /\ isolation_ret.ok
    /\ Len(api_calls) = 3
    /\ api_calls[1] = ApiCall("create", "409")
    /\ <<isolation_ret.namespace, isolation_ret.pod_name>> \in isolated
    /\ Cardinality(PoliciesOf(network_policies, isolation_ret.namespace,
                              isolation_ret.pod_name)) = 1
    /\ active_isolations[isolation_ret.pod_name] = isolation_ret.rule

\* C14 as stated: an isolate_pod call whose first create returns 409 deletes,
\* creates again, returns an IsolationRule and stores it in the map.
C14_Original ==
    [][\A fault \in Faults :
          (IsolatePod(fault) /\ api_calls'[1] = ApiCall("create", "409")) =>
              /\ Len(api_calls') = 3
              /\ api_calls'[2].verb = "delete"
              /\ api_calls'[3].verb = "create"
              /\ isolation_ret'.ok
              /\ isolation_ret'.rule # NoRule
              /\ active_isolations'[fault.pod_name] = isolation_ret'.rule]_vars

\* C14 amended: an isolate_pod call whose first create returns 409 sends a
\* delete for the policy (whose result it ignores) and then a second create;
\* when the second create succeeds, the call returns an IsolationRule for the
\* pod and stores it in the map; when the second create fails (an API error,
\* or 409 again because the delete failed), the call returns the error and
\* leaves the map as it was.
C14_ConflictRecovers ==
    [][\A fault \in Faults :
          (IsolatePod(fault) /\ api_calls'[1] = ApiCall("create", "409")) =>
              /\ Len(api_calls') = 3
              /\ api_calls'[2].verb = "delete"
              /\ api_calls'[3].verb = "create"
              /\ api_calls'[2].res # "ok" => api_calls'[3].res # "ok"
              /\ IF api_calls'[3].res = "ok"
                 THEN /\ isolation_ret'.ok
                      /\ isolation_ret'.rule.pod_name = fault.pod_name
                      /\ isolation_ret'.rule.namespace = fault.namespace
                      /\ isolation_ret'.rule.network_policy_name = policy_name(fault.pod_name)
                      /\ active_isolations'[fault.pod_name] = isolation_ret'.rule
                      /\ Cardinality(PoliciesOf(network_policies', fault.namespace,
                                                fault.pod_name)) = 1
                 ELSE /\ ~isolation_ret'.ok
                      /\ isolation_ret'.err = "KubeError"
                      /\ active_isolations' = active_isolations]_vars

\* a 409 recovered by delete and create, the new rule replacing an older one
C14_Witness ==
    /\ isolation_ret.op = "isolate_pod"
    /\ isolation_ret.ok
    /\ api_calls = <<ApiCall("create", "409"), ApiCall("delete", "ok"),
                     ApiCall("create", "ok")>>
    /\ active_isolations[isolation_ret.pod_name] = isolation_ret.rule
    /\ isolation_ret.rule.created_at > 0

\* C15 as stated: between calls, the active-isolations map has an entry for a
\* pod exactly when the cluster holds that pod's isolation policy.
C15_MapMatchesCluster ==
    \A pod_name \in Pods :
        (active_isolations[pod_name] # NoRule) <=>
            (\E q \in network_policies : q.name = policy_name(pod_name))

\* C16: remove_isolation(pod, ns) sends one delete for the pod's policy; when
\* the delete succeeds or returns 404, the call returns Ok, the pod has no
\* entry in the map any more, the other entries are as before and the
\* namespace holds no policy of that name; on any other delete error the call
\* returns the error and map and cluster are as before.
C16_RemoveIsolation ==
    [][\A fault \in Faults :
          RemoveIsolation(fault.pod_name, fault.namespace) =>
              /\ Len(api_calls') = 1
              /\ api_calls'[1].verb = "delete"
              /\ IF api_calls'[1].res \in {"ok", "404"}
                 THEN /\ isolation_ret'.ok
                      /\ active_isolations'[fault.pod_name] = NoRule
                      /\ \A other \in Pods \ {fault.pod_name} :
                             active_isolations'[other] = active_isolations[other]
                      /\ Named(network_policies', fault.namespace,
                               policy_name(fault.pod_name)) = {}
                 ELSE /\ ~isolation_ret'.ok
                      /\ isolation_ret'.err = "KubeError"
                      /\ active_isolations' = active_isolations
                      /\ network_policies' = network_policies]_vars

\* a remove_isolation that met a 404 and still returned Ok, after one whose
\* delete removed the policy
C16_Witness ==
    /\ isolation_ret.op = "remove_isolation"
    /\ isolation_ret.ok
    /\ api_calls = <<ApiCall("delete", "404")>>
    /\ isolated # {}
    /\ active_isolations[isolation_ret.pod_name] = NoRule

\* ------------------------------------------------------------------------
\* Claims about run_check_loop (checked under SpecLoop)
\* ------------------------------------------------------------------------

\* C17 as stated: when stop() was called since the loop last read the flag,
\* the loop breaks at its next read, whatever start() and stop() calls
\* came in between; and a loop that reads the flag as false returns without
\* starting a sweep.
C17_StopEndsLoop ==
    [][loop_check =>
          /\ stopped => loop_pc' = "done"
          /\ ~running => (loop_pc' = "done" /\ loop_rounds' = loop_rounds)]_vars

\* ------------------------------------------------------------------------
\* Claims about execute_strategy and verify_healing (checked under
\* SpecMetaCognitive)
\* ------------------------------------------------------------------------

\* the error of the cluster operation a strategy type stands for, None when
\* the operation succeeds: a delete of the pod, a get and a patch of the
\* deployment, a patch of the deployment, or no operation at all
OperationError(arg) ==
    CASE arg.strategy_type = "NetworkIsolation" -> None
      [] arg.strategy_type = "HorizontalScale" ->
             IF arg.get_res # "ok" THEN arg.get_res
             ELSE IF arg.write_res # "ok" THEN arg.write_res
             ELSE None
      [] OTHER -> IF arg.write_res # "ok" THEN arg.write_res ELSE None

\* C18: execute_strategy returns Ok for every strategy type and every result
\* of its API requests: an ActionResult with success = false and a message
\* that carries the error when the cluster operation fails, one with
\* success = true when it succeeds.
C18_ExecuteNeverErrs ==
    exec_arg.strategy_type # None =>
        /\ exec_ret.ok
        /\ exec_ret.result.action_type = to_action_type(exec_arg.strategy_type)
        /\ IF OperationError(exec_arg) # None
           THEN /\ ~exec_ret.result.success
                /\ exec_ret.result.message = <<"Strategy failed", OperationError(exec_arg)>>
           ELSE exec_ret.result.success

\* a horizontal scale whose patch failed after the get succeeded
C18_Witness ==
    /\ exec_arg = ExecArg("HorizontalScale", "ok", "error")
    /\ exec_ret.ok
    /\ ~exec_ret.result.success

\* C19: verify_healing returns Ok(true) exactly when the lookup returns 404
\* or a pod whose phase is Running and whose container statuses all report
\* ready; Ok(false) for a found pod that is not Running, has an unready
\* container or has no container statuses (the field is absent); and the
\* error for any other lookup error.
C19_VerifyHealing ==
    verify_arg.res # None =>
        LET found == verify_arg.res = "ok"
            is_running == verify_arg.has_status /\ verify_arg.phase = "Running"
            reported == verify_arg.has_status /\ verify_arg.has_container_statuses
            unready == \E i \in 1..Len(verify_arg.ready) : ~verify_arg.ready[i]
        IN /\ verify_arg.res \notin {"ok", "404"} =>
                  (~verify_ret.ok /\ verify_ret.err = "KubeError")
           /\ verify_arg.res \in {"ok", "404"} =>
                  /\ verify_ret.ok
                  /\ verify_ret.value <=>
                         \/ verify_arg.res = "404"
                         \/ found /\ is_running /\ reported /\ ~unready
           /\ (found /\ (~is_running \/ ~reported \/ unready)) =>
                  (verify_ret.ok /\ ~verify_ret.value)

\* a Running pod with every container ready was verified
C19_Witness ==
    /\ verify_arg.res = "ok"
    /\ verify_arg.phase = "Running"
    /\ Len(verify_arg.ready) = MaxContainers
    /\ verify_ret.ok
    /\ verify_ret.value

\* ------------------------------------------------------------------------
\* Claims about record_healing_event (checked under SpecPipeline)
\* ------------------------------------------------------------------------

\* C20: in every run of record_healing_event the vector store's upsert_entry
\* is called with the entry exactly when generate_embedding succeeded, so
\* every upserted entry has an embedding; when the embedding failed, the
\* entry has no embedding and no topic, the vector store is not called and
\* the run goes on to the recency cache.
C20_UpsertOnlyWithEmbedding ==
    \A run \in knowledge_log :
        /\ (run.entry.id \in qdrant_calls) <=> run.embedded
        /\ run.entry.id \in qdrant_points => run.entry.has_embedding
        /\ ~run.embedded =>
               /\ ~run.entry.has_embedding
               /\ run.entry.topic = None
               /\ run.cached

\* a run whose embedding failed and whose entry still reached the cache
C20_Witness ==
    \E run \in knowledge_log :
        /\ ~run.embedded
        /\ run.entry.id \in cache_entries
        /\ run.entry.id \notin qdrant_calls
        /\ \E i \in 1..Len(events) : events[i].event_type = "KnowledgeUpdated"

\* C21: every run of record_healing_event goes on to the recency cache
\* (local_cache.add_entry, and the publish of KnowledgeUpdated after it),
\* whatever the embedding and the vector-store upsert returned.
C21_AlwaysCachedAndPublished ==
    \A run \in knowledge_log : run.cached

\* ------------------------------------------------------------------------
\* Claims about the recency cache (checked under SpecCache)
\* ------------------------------------------------------------------------

\* the ids in the recent list
RecentIds == {cache_recent[j] : j \in 1..Len(cache_recent)}

\* C22: after N add_entry calls that all returned Ok on a cache with
\* max_local_events = K, the recent list holds exactly the min(N, K) ids
\* added last, newest first, and no id that was trimmed from the list has an
\* entry in the cache any more.
C22_RecencyCacheOrdering ==
    (\A i \in 1..Len(add_calls) : add_calls[i].ok) =>
        LET N == Len(add_calls)
            M == IF N < MaxLocalEvents THEN N ELSE MaxLocalEvents
        IN /\ cache_recent = [j \in 1..M |-> add_calls[N + 1 - j].id]
           /\ \A i \in 1..N :
                  add_calls[i].id \notin RecentIds => add_calls[i].id \notin cache_entries

\* ------------------------------------------------------------------------
\* Claims about find_similar_events (checked under SpecSearch)
\* ------------------------------------------------------------------------

Qualifying ==
    {i \in 1..Len(strategy_arg.results) :
        /\ strategy_arg.results[i].ok
        /\ strategy_arg.results[i].confidence >= strategy_arg.decision_threshold}

\* C24: determine_strategy returns the strategy of the qualifying result of
\* maximum confidence, the earliest one on a tie, failed micro-agents and
\* results below the threshold playing no part; it fails with the
\* no-strategy-met-threshold healing error exactly when no result qualifies.
C24_SelectsMaxConfidence ==
    strategy_ret.done =>
        /\ ~strategy_ret.ok <=> Qualifying = {}
        /\ ~strategy_ret.ok =>
               strategy_ret.err = "HealingError: No strategy met confidence threshold"
        /\ strategy_ret.ok =>
               \E i \in Qualifying :
                   /\ \A j \in Qualifying :
                          /\ strategy_arg.results[j].confidence
                                 <= strategy_arg.results[i].confidence
                          /\ strategy_arg.results[j].confidence
                                 = strategy_arg.results[i].confidence => i <= j
                   /\ strategy_ret.strategy_type = strategy_arg.results[i].strategy_type
                   /\ strategy_ret.confidence = strategy_arg.results[i].confidence

\* three micro-agents returned 0.65, 0.82 and 0.91 with threshold 0.7 and
\* the strategy of the third was selected, with its rollback plan
C24_Witness ==
    /\ strategy_ret.done
    /\ strategy_arg.decision_threshold = 70
    /\ Len(strategy_arg.results) = 3
    /\ \A i \in 1..3 : strategy_arg.results[i].ok
    /\ [i \in 1..3 |-> strategy_arg.results[i].confidence] = <<65, 82, 91>>
    /\ strategy_ret.ok
    /\ strategy_ret.strategy_type = "HorizontalScale"
    /\ strategy_ret.confidence = 91
    /\ strategy_ret.rollback = "RestoreReplicas"

\* ------------------------------------------------------------------------
\* Claims about Fault::new (checked under SpecFault)
\* ------------------------------------------------------------------------

\* C25: the severity of a Fault is the value the documented table gives for
\* its reasons and metrics: critical when a reason is oom-kill or crash-loop;
\* otherwise critical for error-rate > 0.5, high for error-rate > 0.2, high
\* for cpu > 0.95 or memory > 0.95, and medium for the rest, absent metrics
\* counting as 0; it is never low.
C25_SeverityTable ==
    severity_arg.called =>
        LET reasons == severity_arg.reasons
            m == severity_arg.metrics
            value(option) == IF option.some THEN option.value ELSE 0
            named == \E i \in 1..Len(reasons) : reasons[i] \in {"OomKilled", "CrashLoop"}
        IN /\ severity_ret \in {"Medium", "High", "Critical"}
           /\ severity_ret = "Critical" <=> (named \/ value(m.error_rate) > 50)
           /\ severity_ret = "High" <=>
                  /\ ~named
                  /\ value(m.error_rate) <= 50
                  /\ \/ value(m.error_rate) > 20
                     \/ value(m.cpu_usage) > 95
                     \/ value(m.memory_usage) > 95

\* a Fault with a crash-loop reason after another one, and quiet metrics,
\* was rated critical
C25_Witness ==
    /\ severity_arg.called
    /\ severity_arg.reasons = <<"HighCpu", "CrashLoop">>
    /\ severity_arg.metrics = TriggerMetrics(Some(95), Absent, Some(20))
    /\ severity_ret = "Critical"

\* ------------------------------------------------------------------------
\* Claims about negotiate_with_neighbors (checked under SpecNeighbors)
\* ------------------------------------------------------------------------

\* C26: a successful negotiate_with_neighbors call puts every pod it has
\* metrics for, other than the faulty pod, into exactly one of accepting and
\* rejected: with available = 1 - max(cpu, memory) and threshold T the pod is
\* accepting iff available >= T, with load fraction
\* min(0.5, (available - T) / (1 - T)), and rejected otherwise; every
\* accepted load fraction lies in [0, 0.5].
C26_NeighborMath ==
    (negotiate_arg.called /\ negotiate_ret.ok) =>
        LET T == negotiate_arg.neighbor_capacity_threshold
            m == negotiate_arg.all_metrics
            usage(pod) == IF m[pod].cpu_usage >= m[pod].memory_usage
                          THEN m[pod].cpu_usage ELSE m[pod].memory_usage
            accepted == {n.pod_name : n \in negotiate_ret.accepting_pods}
            refused == {n.pod_name : n \in negotiate_ret.rejected_pods}
        IN /\ accepted \cup refused = DOMAIN m \ {negotiate_arg.faulty_pod}
           /\ accepted \cap refused = {}
           /\ Cardinality(negotiate_ret.accepting_pods) = Cardinality(accepted)
           /\ Cardinality(negotiate_ret.rejected_pods) = Cardinality(refused)
           /\ \A pod \in DOMAIN m \ {negotiate_arg.faulty_pod} :
                  pod \in accepted <=> (100 - usage(pod)) >= T
           /\ \A n \in negotiate_ret.accepting_pods :
                  LET f == n.accepted_load_fraction
                      available == 100 - usage(n.pod_name)
                  IN /\ n.available_capacity = available
                     /\ f.den > 0
                     /\ 0 <= f.num
                     /\ 2 * f.num <= f.den
                     /\ IF T < 100 /\ 2 * (available - T) < 100 - T
                        THEN f.num * (100 - T) = (available - T) * f.den
                        ELSE 2 * f.num = f.den

\* with threshold 0.7 and p1 faulty, p2 (0.25 busy) was accepted with a
\* sixth of the load and p3 (0.31 busy) was rejected
C26_Witness ==
    /\ negotiate_arg.called
    /\ negotiate_ret.ok
    /\ negotiate_arg.faulty_pod = "p1"
    /\ negotiate_arg.neighbor_capacity_threshold = 70
    /\ DOMAIN negotiate_arg.all_metrics = NeighborPods
    /\ negotiate_ret.accepting_pods = {AcceptingNeighbor("p2", 75, Quotient(5, 30))}
    /\ negotiate_ret.rejected_pods = {RejectedNeighbor("p3", 69)}

\* ------------------------------------------------------------------------
\* Claims about KnowledgeEntry (checked under SpecUsage)
\* ------------------------------------------------------------------------

\* the successes counted so far: the entry's own outcome and the successful usages
Successes ==
    (IF knowledge_entry.success THEN 1 ELSE 0)
        + Cardinality({i \in 1..Len(usage_log) : usage_log[i]})

TerminalEntries ==
    {i \in 1..Len(transitions) : transitions[i].to \in {"Completed", "Failed"}}

\* C28: while the state is not terminal duration_ms() is the time elapsed
\* since creation; once it is terminal duration_ms() is the time at which it
\* first reached a terminal phase minus the creation time, whatever
\* transition_to calls have followed.
C28_DurationFixedAtTerminal ==
    IF phase \in {"Completed", "Failed"}
    THEN \E i \in TerminalEntries :
            /\ \A j \in TerminalEntries : i <= j
            /\ duration_ms = transitions[i].timestamp - created_at
    ELSE duration_ms = now - created_at

\* the fault the last isolate_pod call of a configured-strategy run was given
IsolatedFault ==
    CHOOSE fault \in SeverityFaults :
        /\ fault.pod_name = isolation_ret.pod_name
        /\ fault.namespace = isolation_ret.namespace

\* the strategy the specification names for the fault under the configuration
ExpectedStrategy(fault) ==
    IF isolation_strategy = "Auto"
    THEN IF fault.severity = "Critical" THEN "Hard" ELSE "Soft"
    ELSE isolation_strategy

PolicyTypesOf(policy) == {policy.policy_types[i] : i \in 1..Len(policy.policy_types)}

\* a direction is denied when the policy covers it and allows no peer
Denied(policy, direction, rule_list) ==
    direction \in PolicyTypesOf(policy) /\ rule_list.rules = <<>>

\* C30: when isolate_pod returns Ok, the strategy is Hard for a Critical fault
\* and Soft for any other fault under Auto, and the configured one otherwise;
\* under Hard the policy in the cluster has policy types {Ingress, Egress},
\* both denied, and the rule's type is DenyAll; under Soft it has policy types
\* {Ingress}, ingress denied, no egress section, and the rule's type is
\* DenyIngress
C30_StrategyAndPolicyShape ==
    (isolation_ret.op = "isolate_pod" /\ isolation_ret.ok) =>
        LET fault == IsolatedFault
            strategy == ExpectedStrategy(fault)
            policies == Named(network_policies, fault.namespace,
                              policy_name(fault.pod_name))
        IN /\ policies # {}
           /\ strategy \in {"Hard", "Soft"}
           /\ \A policy \in policies :
                 IF strategy = "Hard"
                 THEN /\ PolicyTypesOf(policy) = {"Ingress", "Egress"}
                      /\ Denied(policy, "Ingress", policy.ingress)
                      /\ Denied(policy, "Egress", policy.egress)
                      /\ policy.ingress.some /\ policy.egress.some
                      /\ isolation_ret.rule.rule_type = "DenyAll"
                 ELSE /\ PolicyTypesOf(policy) = {"Ingress"}
                      /\ Denied(policy, "Ingress", policy.ingress)
                      /\ policy.ingress.some /\ ~policy.egress.some
                      /\ isolation_ret.rule.rule_type = "DenyIngress"

\* a Low fault isolated under the configured strategy Hard
C30_Witness ==
    /\ isolation_strategy = "Hard"
    /\ isolation_ret.op = "isolate_pod" /\ isolation_ret.ok
    /\ IsolatedFault.severity = "Low"
    /\ isolation_ret.rule.rule_type = "DenyAll"

\* the reasons the specification names for a pod's metrics: the exceeded
\* thresholds in the order cpu, memory, error rate, latency
ExceededThresholds(m) ==
    LET Exceeded(reason) ==
            \/ reason = "HighCpu" /\ m.cpu_usage > Thresholds.cpu
            \/ reason = "HighMemory" /\ m.memory_usage > Thresholds.memory
            \/ reason = "HighErrorRate" /\ m.error_rate > Thresholds.error_rate
            \/ reason = "HighLatency" /\ m.latency_ms > Thresholds.latency_ms
    IN SelectSeq(<<"HighCpu", "HighMemory", "HighErrorRate", "HighLatency">>, Exceeded)

\* the FaultDetected events on the bus
FaultDetectedEvents ==
    {i \in 1..Len(events) : events[i].event_type = "FaultDetected"}

\* C29: after check_metrics succeeded for a namespace, the cluster holds
\* exactly one Fault for each pod of the reply with a metric strictly above its
\* threshold, with exactly the exceeded thresholds as reasons in the order cpu,
\* memory, error rate, latency, and no Fault for another pod; once the sweep
\* of the namespace is over it has made exactly one publish call of a
\* FaultDetected with a correlation id no event had before if the cluster is
\* not empty, and none if it is empty or check_metrics failed
C29_OneFaultPerPodOnePublish ==
    LET metrics == sweep_arg.reply.metrics
        faults == sweep_cluster.faults
        FaultsOf(pod) == {j \in 1..Len(faults) : faults[j].pod_name = pod}
    IN /\ (sweep_arg.called /\ sweep_arg.reply.ok) =>
              /\ \A i \in 1..Len(metrics) :
                    IF ExceededThresholds(metrics[i]) # <<>>
                    THEN /\ Cardinality(FaultsOf(metrics[i].pod_name)) = 1
                         /\ \A j \in FaultsOf(metrics[i].pod_name) :
                               /\ faults[j].reasons = ExceededThresholds(metrics[i])
                               /\ faults[j].namespace = sweep_arg.namespace
                    ELSE FaultsOf(metrics[i].pod_name) = {}
              /\ \A j \in 1..Len(faults) :
                    \E i \in 1..Len(metrics) : metrics[i].pod_name = faults[j].pod_name
       /\ (sweep_arg.called /\ ~sweep_arg.reply.ok) => sweep_cluster.faults = <<>>
       /\ Len(sweep_published) <= 1
       /\ Cardinality(FaultDetectedEvents) <= Len(sweep_published)
       /\ sweep_pc = "done" =>
              Len(sweep_published) = IF faults # <<>> THEN 1 ELSE 0
       /\ \A k \in 1..Len(sweep_published) :
              /\ faults # <<>>
              /\ sweep_published[k].correlation_id > 0
              /\ \A i \in 1..Len(events) :
                    /\ events[i].id # sweep_published[k].correlation_id
                    /\ events[i].correlation_id = sweep_published[k].correlation_id
                          => events[i].pod = faults[1].pod_name
              /\ sweep_published[k].ok =>
                    \E i \in FaultDetectedEvents :
                        events[i].correlation_id = sweep_published[k].correlation_id

\* the sweep of a namespace with two pods of which one has only its cpu above
\* the threshold: one Fault with reasons [HighCpu] and severity Medium, and
\* one FaultDetected on the bus
C29_Witness ==
    /\ sweep_pc = "done"
    /\ Len(sweep_arg.reply.metrics) = 2
    /\ Len(sweep_cluster.faults) = 1
    /\ sweep_cluster.faults[1].reasons = <<"HighCpu">>
    /\ sweep_cluster.faults[1].severity = "Medium"
    /\ Len(sweep_published) = 1 /\ sweep_published[1].ok
    /\ Cardinality(FaultDetectedEvents) = 1

\* ------------------------------------------------------------------------
\* Claims about one iteration of run_check_loop (checked under SpecIteration)
\* ------------------------------------------------------------------------

\* a step of the iteration can go no further only because the model stops
\* counting isolate_pod calls or sweeps there
IterationBoundReached ==
    \/ sweep_pc = "isolate" /\ isolation_calls = MaxIsolationCalls
    \/ sweep_pc = "publish" /\ sweeps = MaxIncidents

\* C31: errors inside an iteration are contained. Whatever failed, the loop
\* has a next step until it comes to its sleep; the namespaces gone through
\* are the loop's namespaces in order, a failed metric fetch included; for a
\* namespace with a non-empty cluster every fault was passed to isolate_pod,
\* whether or not an earlier isolate_pod failed, and one publish call was
\* made, whether or not it failed; for a failed fetch or an empty cluster no
\* isolation and no publish is made
C31_ErrorsContained ==
    /\ sweep_pc # "sleep" => (ENABLED LoopStep \/ IterationBoundReached)
    /\ sweep_pc = "sleep" => Len(sweep_log) = Len(LoopNamespaces)
    /\ Len(sweep_log) = sweep_ns
    /\ \A k \in 1..Len(sweep_log) :
          /\ sweep_log[k].namespace = LoopNamespaces[k]
          /\ Len(sweep_log[k].isolations) = sweep_log[k].faults
          /\ Len(sweep_log[k].published) = IF sweep_log[k].faults > 0 THEN 1 ELSE 0
          /\ ~sweep_log[k].fetched => sweep_log[k].faults = 0

\* an iteration that came to its sleep after a failed metric fetch for the
\* first namespace and, for the second, a cluster of two faults of which the
\* first could not be isolated and the second was, and a publish that failed
C31_Witness ==
    /\ sweep_pc = "sleep"
    /\ ~sweep_log[1].fetched
    /\ sweep_log[2].fetched
    /\ sweep_log[2].isolations = <<FALSE, TRUE>>
    /\ Len(sweep_log[2].published) = 1
    /\ ~sweep_log[2].published[1].ok

\* ------------------------------------------------------------------------
\* Claims about MicroAgent::evaluate (checked under SpecEvaluate)
\* ------------------------------------------------------------------------

\* a reply after which the specification lets the evaluation stop
StopsAt(reply) ==
    /\ reply.ok
    /\ \/ reply.success_probability >= 80
       \/ reply.success_probability >= 70 /\ reply.prerequisites_met

\* C32: evaluate makes at most max_reasoning_depth LLM calls and reports a
\* depth of at most max_reasoning_depth; it goes on exactly as long as no
\* reply gave a confidence of at least 0.8, or of at least 0.7 with the
\* prerequisites met, and the depth is not used up; the confidence it returns
\* is the success_probability of the last reply, or the initial table
\* confidence if no call was made; an LLM error ends it with an error
C32_BoundedEvaluation ==
    LET n == Len(micro_replies)
    IN /\ n <= micro_arg.max_depth
       /\ micro_depth <= micro_arg.max_depth
       /\ \A i \in 1..(n - 1) : micro_replies[i].ok /\ ~StopsAt(micro_replies[i])
       /\ micro_ret.done =>
             IF micro_ret.ok
             THEN /\ micro_ret.reasoning_depth = n
                  /\ micro_ret.reasoning_depth <= micro_arg.max_depth
                  /\ micro_ret.confidence =
                        IF n = 0
                        THEN calculate_initial_confidence(micro_arg.strategy_type,
                                                          micro_arg.root_cause)
                        ELSE micro_replies[n].success_probability
                  /\ \/ n = micro_arg.max_depth
                     \/ n > 0 /\ StopsAt(micro_replies[n])
             ELSE n > 0 /\ ~micro_replies[n].ok
       /\ (micro_pc = "done" /\ n > 0 /\ ~micro_replies[n].ok) => ~micro_ret.ok

\* an evaluation with max_reasoning_depth 3 that stopped after its second
\* call, which gave 0.7 with the prerequisites met, the first having given
\* 0.7 without them
C32_Witness ==
    /\ micro_ret.done /\ micro_ret.ok
    /\ micro_arg.max_depth = 3
    /\ micro_replies = <<LlmReply(TRUE, 70, FALSE), LlmReply(TRUE, 70, TRUE)>>
    /\ micro_ret.confidence = 70
    /\ micro_ret.reasoning_depth = 2

\* ------------------------------------------------------------------------
\* Claims about event-kind filtering (checked under SpecBus)
\* ------------------------------------------------------------------------

\* C33: the kinds passed to subscribe play no part in what the receiver it
\* returns is handed: a bare receiver is handed every event it reads,
\* whatever its kind; a FilteredReceiver is handed the event it reads when
\* its kind is in the allowed list or the list is empty, and skips it
\* otherwise
C33_FilteringOnlyInFilteredReceiver ==
    /\ [][\A r \in Receivers :
            (recv(r) /\ recv_ret'[r].res = "Ok") =>
                LET event == sent[recv_ret'[r].n]
                    allowed == \/ ~filter[r].wrapped
                               \/ filter[r].allowed_types = {}
                               \/ event.event_type \in filter[r].allowed_types
                IN delivered'[r] = IF allowed THEN Append(delivered[r], event)
                                   ELSE delivered[r]]_vars
    /\ [](\A r \in Receivers :
            /\ ~filter[r].wrapped => Len(delivered[r]) = taken[r]
            /\ filter[r].wrapped =>
                  \A i \in 1..Len(delivered[r]) :
                      \/ filter[r].allowed_types = {}
                      \/ delivered[r][i].event_type \in filter[r].allowed_types)

\* a bare receiver subscribed for FaultDetected only was handed a
\* KnowledgeUpdated event, and a FilteredReceiver over FaultDetected has read
\* an event it was not handed
C33_Witness ==
    /\ subscribers["Diagnosis"].event_types = {"FaultDetected"}
    /\ \E i \in 1..Len(delivered["Diagnosis"]) :
          delivered["Diagnosis"][i].event_type = "KnowledgeUpdated"
    /\ filter["Knowledge"] = FilteredReceiver({"FaultDetected"})
    /\ taken["Knowledge"] > Len(delivered["Knowledge"])
    /\ Len(delivered["Knowledge"]) > 0

\* ------------------------------------------------------------------------
\* Claims about the reconciler's phase history (checked under SpecHealing)
\* ------------------------------------------------------------------------

\* the phase a stored status reads as: an absent status is Pending
StoredPhase(st) == IF st.present THEN st.phase ELSE "Pending"

\* C34: every change of the stored phase is a move HealingState's transition
\* table permits, so replaying the phase history of the HealingEvent through
\* transition_to never meets an invalid transition; reconcile_event is the
\* only writer of the status.
C34_PhaseHistoryFollowsTable ==
    [][StoredPhase(status') # StoredPhase(status)
          => is_valid_transition(StoredPhase(status), StoredPhase(status'))]_vars

\* the whole history has been written, the last move from a copy that the
\* watch has not refreshed since
C34_Witness ==
    /\ status.phase = "Completed"
    /\ observed.phase = "Verifying"
    /\ last_patch.sent
    /\ last_patch.phase = "Completed"

\* a reconcile_event whose patch is applied and moves the stored phase
reconcile_advances ==
    /\ reconcile_event
    /\ StoredPhase(status') # StoredPhase(status)

\* the HealingEvent under a fair controller while the agents start: requeue(5 s)
\* brings reconcile_event back for as long as the phase is not terminal,
\* the watch stream refreshes the controller's copy, and a status patch
\* that keeps being sent is applied in the end
NextReconcileFair ==
    \/ StateTick
    \/ StartAgent
    \/ watch_event
    \/ reconcile_event

SpecReconcileFair ==
    /\ Init
    /\ [][NextReconcileFair]_vars
    /\ WF_vars(watch_event)
    /\ WF_vars(reconcile_advances)

\* C35: with reconcile_event scheduled fairly and status patches applied in
\* the end, the HealingEvent reaches a terminal phase, and from then on no
\* step of the reconciler changes its phase.
C35_ReachesTerminalAndStays ==
    /\ <>TerminalPhase(StoredPhase(status))
    /\ [][TerminalPhase(StoredPhase(status))
            => StoredPhase(status') = StoredPhase(status)]_vars

\* a terminal event is reconciled once more from a copy that still shows
\* Verifying: the patch is sent and applied, and the phase is what it was
C35_Witness ==
    /\ status.phase = "Completed"
    /\ observed.phase = "Verifying"
    /\ last_patch.sent
    /\ status.start_time < status.end_time
    /\ last_patch.end_time = status.end_time
    /\ last_patch.end_time = now

\* ------------------------------------------------------------------------
\* Claims about isolations of several workloads (checked under SpecIsolation)
\* ------------------------------------------------------------------------

\* the map m holds the rule of the workload pod_name in namespace
HoldsRule(m, pod_name, namespace) ==
    /\ m[pod_name] # NoRule
    /\ m[pod_name].pod_name = pod_name
    /\ m[pod_name].namespace = namespace

\* the faults of the other workloads: another pod, or the same pod name in
\* another namespace
OtherWorkloads(fault) ==
    {other \in Faults : other.pod_name # fault.pod_name \/ other.namespace # fault.namespace}

\* C36 as stated: a successful isolate_pod stores the workload's rule and
\* keeps the rule of every other workload, so that two pods of the same name
\* in two namespaces both have their rule; remove_isolation for one workload
\* keeps the rule of every other workload.
C36_IsolationsDoNotInterfere ==
    [][\A fault \in Faults :
          /\ (IsolatePod(fault) /\ isolation_ret'.ok) =>
                /\ HoldsRule(active_isolations', fault.pod_name, fault.namespace)
                /\ \A other \in OtherWorkloads(fault) :
                       HoldsRule(active_isolations, other.pod_name, other.namespace)
                           => HoldsRule(active_isolations', other.pod_name, other.namespace)
          /\ RemoveIsolation(fault.pod_name, fault.namespace) =>
                \A other \in OtherWorkloads(fault) :
                    HoldsRule(active_isolations, other.pod_name, other.namespace)
                        => HoldsRule(active_isolations', other.pod_name, other.namespace)]_vars

\* ------------------------------------------------------------------------
\* Claims about add_entry's steps (checked under SpecCacheTasks)
\* ------------------------------------------------------------------------

\* C37 as stated: in every reachable state, those between the set, push and
\* trim commands of add_entry and those with several calls under way
\* included, the recency list holds at most max_local_events ids.
C37_RecencyListBounded == Len(cache_recent) <= MaxLocalEvents

\* ------------------------------------------------------------------------
\* Claims about the meta-cognitive agent's handler (checked under SpecHandle)
\* ------------------------------------------------------------------------

\* the event the last handle_event call returned
ResponseOf(h) == CHOOSE e \in {events[i] : i \in 1..Len(events)} : e.id = h.response

\* C38: the HealingComplete returned for a DiagnosisComplete has success =
\* true exactly when execute_strategy reported success and verify_healing
\* then returned Ok(true); verify_healing is not called after a failed
\* execution; a verify_healing error gives a HealingComplete with
\* success = false, not an error of the handler.
C38_SuccessIffExecutedAndVerified ==
    meta_handle.pc = "idle" =>
        /\ (meta_handle.executed /\ ~meta_handle.exec.result.success)
               => ~meta_handle.verify_called
        /\ (meta_handle.verify_called /\ ~meta_handle.verified.ok)
               => meta_handle.res = "Some"
        /\ meta_handle.res = "Some" =>
               /\ \E i \in 1..Len(events) : events[i].id = meta_handle.response
               /\ ResponseOf(meta_handle).event_type = "HealingComplete"
               /\ ResponseOf(meta_handle).success <=>
                      /\ meta_handle.exec.result.success
                      /\ meta_handle.verify_called
                      /\ meta_handle.verified.ok
                      /\ meta_handle.verified.value

\* the execution succeeded and the verification failed with an error: the
\* handler returned HealingComplete with success = false
C38_Witness ==
    /\ meta_handle.pc = "idle"
    /\ meta_handle.exec.result.success
    /\ meta_handle.verify_called
    /\ ~meta_handle.verified.ok
    /\ meta_handle.res = "Some"
    /\ handler_ret = HandlerRet("MetaCognitive", "Some")
    /\ ~ResponseOf(meta_handle).success

\* the events that exist
Events == {events[i] : i \in 1..Len(events)}

\* C39 as stated: the workload handle_event passes to determine_strategy,
\* execute_strategy and verify_healing is the faulty pod of the FaultDetected
\* event that has the correlation id of the DiagnosisComplete being handled.
C39_HandlesIncidentWorkload ==
    meta_handle.res # "NotCalled" =>
        \A handled_event \in Events, fault_event \in Events :
            (/\ handled_event.id = meta_handle.event
             /\ fault_event.event_type = "FaultDetected"
             /\ fault_event.correlation_id = handled_event.correlation_id)
                => meta_handle.target.pod_name = fault_event.pod

\* ------------------------------------------------------------------------
\* Claims about lifting an isolation (checked under SpecLift)
\* ------------------------------------------------------------------------

\* C40 as stated: when the containment agent handles a HealingComplete with
\* success = true, the isolation of the incident's pod (the pod of the
\* FaultDetected event with the same correlation id) is lifted: after the
\* handler the pod has no entry in the active-isolations map and its
\* namespace holds no isolation policy for it.
C40_HealedIsolationLifted ==
    [][\A i \in 1..Len(events) :
          (Containment_handle_event(i) /\ events[i].success) =>
              \A fault_event \in Events :
                  (/\ fault_event.event_type = "FaultDetected"
                   /\ fault_event.correlation_id = events[i].correlation_id)
                      => /\ active_isolations'[fault_event.pod] = NoRule
                         /\ active_isolations[fault_event.pod] # NoRule =>
                                Named(network_policies',
                                      active_isolations[fault_event.pod].namespace,
                                      policy_name(fault_event.pod)) = {}]_vars

====
